---- MODULE Spec2Model ----
(***************************************************************************)
(* Echo Ink document sessions on top of an append-only AgentCore memory    *)
(* log: the session store (session_storage.py), the session lifecycle      *)
(* tools (echo_ink_orchestrator.py) and the template helpers               *)
(* (templates.py).                                                         *)
(*                                                                         *)
(* Text is modelled as a sequence of tokens (strings), so that f-strings   *)
(* and str.replace are computed, not looked up.  A rendered document is    *)
(* the sequence of the texts substituted for the placeholders of the       *)
(* template structure, in the order of the structure; the literal text     *)
(* between placeholders is fixed per template and is left out.             *)
(* Timestamps (datetime.now()) are integer ticks of one clock `now`.       *)
(***************************************************************************)
EXTENDS Integers, Sequences, FiniteSets, TLC

\* ---- bounds of the model ------------------------------------------------
\* number of records one run may append to the log
MaxAppends == 1
\* last tick of the clock
MaxTime == 1

\* ---- templates.py -------------------------------------------------------
\* a registry whose lecture skeleton names a placeholder that is in
\* neither field list
TEMPLATES_WITH_STRAY_PLACEHOLDER ==
  [lecture |->
    [name |-> "Lecture Notes",
     structure |-> <<"lecture_number", "title", "course_code",
                     "lecture_date", "instructor_name", "main_content">>,
     required_fields |-> <<"lecture_number", "lecture_date", "main_content">>,
     optional_fields |-> <<"agenda">>]]

\* TEMPLATES: name, required_fields, optional_fields as in the source;
\* structure is the sequence of the placeholders of the skeleton.
TEMPLATES ==
  [syllabus |->
    [name |-> "Course Syllabus",
     structure |-> <<"course_code", "title", "instructor_name", "semester",
                     "credits", "description", "objectives", "modules",
                     "assessment", "schedule", "policies">>,
     required_fields |-> <<"instructor_name", "semester", "credits",
                           "description">>,
     optional_fields |-> <<"objectives", "modules", "assessment", "schedule",
                           "policies">>],
  exam |->
    [name |-> "Sample Exam",
     structure |-> <<"course_code", "title", "course_title", "exam_type",
                     "exam_date", "duration", "total_points", "instructions",
                     "mc_points", "multiple_choice_questions", "sa_points",
                     "short_answer_questions", "ps_points",
                     "problem_solving_questions", "answer_key">>,
     required_fields |-> <<"course_title", "exam_type", "duration",
                           "total_points">>,
     optional_fields |-> <<"exam_date", "instructions", "mc_points",
                           "sa_points", "ps_points",
                           "multiple_choice_questions",
                           "short_answer_questions",
                           "problem_solving_questions", "answer_key">>],
  assignment |->
    [name |-> "Assignment",
     structure |-> <<"assignment_number", "title", "course_code", "due_date",
                     "total_points", "submission_method", "overview",
                     "objectives", "instructions", "requirements", "tasks",
                     "rubric", "submission_guidelines", "resources">>,
     required_fields |-> <<"assignment_number", "due_date", "total_points",
                           "overview">>,
     optional_fields |-> <<"submission_method", "objectives", "instructions",
                           "requirements", "tasks", "rubric",
                           "submission_guidelines", "resources">>],
  lecture |->
    [name |-> "Lecture Notes",
     structure |-> <<"lecture_number", "title", "course_code",
                     "lecture_date", "chapter_reference", "agenda",
                     "objectives", "review", "main_content", "summary",
                     "next_class", "homework">>,
     required_fields |-> <<"lecture_number", "lecture_date", "main_content">>,
     optional_fields |-> <<"chapter_reference", "agenda", "objectives",
                           "review", "summary", "next_class", "homework">>],
  class_content |->
    [name |-> "Class Content",
     structure |-> <<"title", "class_number", "course_code", "class_date",
                     "duration", "objectives", "prerequisites",
                     "intro_duration", "introduction", "main_duration",
                     "main_content", "activity_duration", "activities",
                     "wrapup_duration", "wrapup", "key_concepts",
                     "resources", "homework">>,
     required_fields |-> <<"class_number", "class_date", "duration",
                           "objectives">>,
     optional_fields |-> <<"prerequisites", "intro_duration",
                           "main_duration", "activity_duration",
                           "wrapup_duration", "introduction", "main_content",
                           "activities", "wrapup", "key_concepts",
                           "resources", "homework">>],
  lab |->
    [name |-> "Lab Manual",
     structure |-> <<"lab_number", "title", "course_code", "duration",
                     "difficulty", "objectives", "prerequisites",
                     "materials", "safety", "setup_duration", "setup_steps",
                     "exercise_duration", "exercise_steps",
                     "analysis_duration", "analysis_steps", "deliverables",
                     "troubleshooting", "extensions">>,
     required_fields |-> <<"lab_number", "duration", "objectives",
                           "exercise_steps">>,
     optional_fields |-> <<"difficulty", "prerequisites", "materials",
                           "safety", "setup_duration", "exercise_duration",
                           "analysis_duration", "setup_steps",
                           "analysis_steps", "deliverables",
                           "troubleshooting", "extensions">>]]

\* field.replace('_', ' ').title() for every field of every template
FieldTitle ==
  [instructor_name |-> "Instructor Name", semester |-> "Semester",
   credits |-> "Credits", description |-> "Description",
   objectives |-> "Objectives", modules |-> "Modules",
   assessment |-> "Assessment", schedule |-> "Schedule",
   policies |-> "Policies", course_title |-> "Course Title",
   exam_type |-> "Exam Type", duration |-> "Duration",
   total_points |-> "Total Points", exam_date |-> "Exam Date",
   instructions |-> "Instructions", mc_points |-> "Mc Points",
   sa_points |-> "Sa Points", ps_points |-> "Ps Points",
   multiple_choice_questions |-> "Multiple Choice Questions",
   short_answer_questions |-> "Short Answer Questions",
   problem_solving_questions |-> "Problem Solving Questions",
   answer_key |-> "Answer Key", assignment_number |-> "Assignment Number",
   due_date |-> "Due Date", overview |-> "Overview",
   submission_method |-> "Submission Method",
   requirements |-> "Requirements", tasks |-> "Tasks", rubric |-> "Rubric",
   submission_guidelines |-> "Submission Guidelines",
   resources |-> "Resources", lecture_number |-> "Lecture Number",
   lecture_date |-> "Lecture Date", main_content |-> "Main Content",
   chapter_reference |-> "Chapter Reference", agenda |-> "Agenda",
   review |-> "Review", summary |-> "Summary", next_class |-> "Next Class",
   homework |-> "Homework", class_number |-> "Class Number",
   class_date |-> "Class Date", prerequisites |-> "Prerequisites",
   intro_duration |-> "Intro Duration", main_duration |-> "Main Duration",
   activity_duration |-> "Activity Duration",
   wrapup_duration |-> "Wrapup Duration", introduction |-> "Introduction",
   activities |-> "Activities", wrapup |-> "Wrapup",
   key_concepts |-> "Key Concepts", lab_number |-> "Lab Number",
   exercise_steps |-> "Exercise Steps", difficulty |-> "Difficulty",
   materials |-> "Materials", safety |-> "Safety",
   setup_duration |-> "Setup Duration",
   exercise_duration |-> "Exercise Duration",
   analysis_duration |-> "Analysis Duration", setup_steps |-> "Setup Steps",
   analysis_steps |-> "Analysis Steps", deliverables |-> "Deliverables",
   troubleshooting |-> "Troubleshooting", extensions |-> "Extensions"]

\* doc_type.replace("_", "").title()
CleanType ==
  [syllabus |-> "Syllabus", exam |-> "Exam", assignment |-> "Assignment",
   lecture |-> "Lecture", class_content |-> "Classcontent", lab |-> "Lab"]

\* get_template: TEMPLATES.get(doc_type); None is the empty sequence
get_template(doc_type) ==
  IF doc_type \in DOMAIN TEMPLATES THEN <<TEMPLATES[doc_type]>> ELSE <<>>

\* a Python str holding one piece of text
Text(s) == <<s>>

\* a validator that asks for the optional fields as well
validate_all_fields(doc_type, fields) ==
  LET template == get_template(doc_type)
      missing_fields ==
        SelectSeq(template[1].required_fields
                    \o template[1].optional_fields,
                  LAMBDA field : field \notin DOMAIN fields)
  IN IF template = <<>>
     THEN <<FALSE, <<<<"Unknown template type: ", doc_type>>>>>>
     ELSE <<Len(missing_fields) = 0, missing_fields>>

\* validate_template_fields: the pair (is_valid, missing_fields); for an
\* unregistered type the list holds one message
validate_template_fields(doc_type, fields) ==
  LET template == get_template(doc_type)
      missing_fields ==
        SelectSeq(template[1].required_fields,
                  LAMBDA field : field \notin DOMAIN fields)
  IN IF template = <<>>
     THEN <<FALSE, <<<<"Unknown template type: ", doc_type>>>>>>
     ELSE <<Len(missing_fields) = 0, missing_fields>>

\* the set of the elements of a sequence
Range(s) == {s[i] : i \in 1..Len(s)}

\* title with the characters outside [alnum, ' ', '-', '_'] dropped and
\* ' ' replaced by '_' (titles used here are shorter than 30 characters)
CleanTitle ==
  ("Intro: CS" :> "Intro_CS") @@ ("Intro CS" :> "Intro_CS")

\* generate_filename with a title: {course_code}_{Type}_{title}_DRAFT.md,
\* kept as its parts <<course_code, Type, title, stage, extension>>
generate_filename(course_code, doc_type, title) ==
  <<course_code, CleanType[doc_type], CleanTitle[title], "_DRAFT", ".md">>

\* str.replace(old, new) on a path kept in parts (every file lives in
\* the one directory "documents")
PathReplace(path, old, new) ==
  [i \in 1..Len(path) |-> IF path[i] = old THEN new ELSE path[i]]

\* None for a path
NoPath == <<>>

\* ---- session_storage.py -------------------------------------------------
\* the prefix that tags a session snapshot in a message text
Marker == "SESSION_DATA: "

\* the prefix that tags a deletion marker
DeletedMarker == "SESSION_DELETED: "

\* str.replace(Marker, "") on one text
StripMarker(text) == SelectSeq(text, LAMBDA tok : tok # Marker)

\* get_session's parse: content.replace("SESSION_DATA: ", "") removes
\* every occurrence of the marker, those inside field values too, before
\* json.loads
ParseGet(payload) ==
  [payload EXCEPT
     !.fields = [k \in DOMAIN payload.fields |->
                   StripMarker(payload.fields[k])]]

\* get_all_sessions' parse: text.split("SESSION_DATA: ", 1)[1] keeps
\* everything after the first marker
ParseAll(payload) == payload

\* create_event: one event appended to the log of the actor, holding the
\* one SYSTEM message <<tag, payload>> under session_id
create_event(l, session_id, tag, payload) ==
  Append(l, [session_id |-> session_id, tag |-> tag, payload |-> payload])

Reverse(s) == [i \in 1..Len(s) |-> s[Len(s) + 1 - i]]

\* a memory that answers with the events of the session oldest first
get_first_k_turns(l, session_id) ==
  SelectSeq(l, LAMBDA e : e.session_id = session_id)

\* get_last_k_turns(session_id, k=100): no message has the USER role, so
\* all the events of the session come back as one turn, newest first (the
\* order update_session relies on: "When retrieving, we'll get the latest
\* version")
get_last_k_turns(l, session_id) ==
  Reverse(SelectSeq(l, LAMBDA e : e.session_id = session_id))

\* AgentCoreSessionStorage.get_session: the first SESSION_DATA message of
\* the turns, parsed; None (<<>>) if there is none
get_session(l, session_id) ==
  LET hits == SelectSeq(get_last_k_turns(l, session_id),
                        LAMBDA e : e.tag = Marker) IN
  IF hits = <<>> THEN <<>> ELSE <<ParseGet(hits[1].payload)>>

\* retrieve_memories(namespace, query, top_k=100): the records of the
\* actor's namespace in the order of the retrieval, which the store does
\* not control: the order of appending ("asc") or its reverse ("desc")
retrieve_memories(l, order) ==
  IF order = "asc" THEN l ELSE Reverse(l)

Orders == {"asc", "desc"}

\* sessions[session_id] = session_data on a dict kept in insertion order
DictPut(sessions, session_data) ==
  IF \E i \in 1..Len(sessions) :
       sessions[i].session_id = session_data.session_id
  THEN [i \in 1..Len(sessions) |->
          IF sessions[i].session_id = session_data.session_id
          THEN session_data ELSE sessions[i]]
  ELSE Append(sessions, session_data)

RECURSIVE CollectSessions(_, _)
\* the loop of get_all_sessions over the memories that are left
CollectSessions(memories, sessions) ==
  IF memories = <<>> THEN sessions
  ELSE CollectSessions(Tail(memories),
         IF Head(memories).tag = Marker
         THEN DictPut(sessions, ParseAll(Head(memories).payload))
         ELSE sessions)

\* AgentCoreSessionStorage.get_all_sessions: the dict session_id -> data,
\* as the sequence of its values in insertion order
get_all_sessions(l, order) ==
  CollectSessions(retrieve_memories(l, order), <<>>)

RECURSIVE MaxByLastUpdated(_, _)
\* max(values, key=last_updated): the first maximal element
MaxByLastUpdated(sessions, best) ==
  IF sessions = <<>> THEN best
  ELSE MaxByLastUpdated(Tail(sessions),
         IF Head(sessions).last_updated > best.last_updated
         THEN Head(sessions) ELSE best)

\* AgentCoreSessionStorage.get_latest_session
get_latest_session(l, order) ==
  LET sessions == get_all_sessions(l, order) IN
  IF sessions = <<>> THEN <<>>
  ELSE <<MaxByLastUpdated(Tail(sessions), Head(sessions))>>

\* AgentCoreSessionStorage.create_session: True and one event appended, or
\* False when create_event raises (ok = FALSE)
create_session(l, session_data, ok) ==
  IF ok THEN [ret |-> TRUE,
              log |-> create_event(l, session_data.session_id, Marker,
                                   session_data)]
  ELSE [ret |-> FALSE, log |-> l]

\* an update that reads the stored session again when it writes and
\* keeps the fields it finds there beside the ones it was given
merge_session(l, session_id, session_data, t, ok) ==
  LET stored == get_session(l, session_id)
      merged ==
        IF stored = <<>> THEN session_data.fields
        ELSE session_data.fields @@ stored[1].fields
      stamped == [session_data EXCEPT !.last_updated = t,
                                      !.fields = merged]
  IN IF ok THEN [ret |-> TRUE,
                 log |-> create_event(l, session_id, Marker, stamped)]
     ELSE [ret |-> FALSE, log |-> l]

\* an update_session that files the new version under the session id of
\* the newest event of the memory
update_session_under_newest(l, session_id, session_data, t, ok) ==
  LET stamped == [session_data EXCEPT !.last_updated = t]
      key == IF l = <<>> THEN session_id ELSE l[Len(l)].session_id
  IN IF ok THEN [ret |-> TRUE, log |-> create_event(l, key, Marker, stamped)]
     ELSE [ret |-> FALSE, log |-> l]

\* AgentCoreSessionStorage.update_session: stamps last_updated, appends
\* the new version
update_session(l, session_id, session_data, t, ok) ==
  LET stamped == [session_data EXCEPT !.last_updated = t] IN
  IF ok THEN [ret |-> TRUE,
              log |-> create_event(l, session_id, Marker, stamped)]
  ELSE [ret |-> FALSE, log |-> l]

\* a delete_session that takes the events of the session out of the
\* memory
storage_delete_session_removing(l, session_id, t, ok) ==
  IF ok THEN [ret |-> TRUE,
              log |-> SelectSeq(l, LAMBDA e : e.session_id # session_id)]
  ELSE [ret |-> FALSE, log |-> l]

\* AgentCoreSessionStorage.delete_session: appends a deletion marker
storage_delete_session(l, session_id, t, ok) ==
  LET deletion_marker == [session_id |-> session_id, deleted |-> TRUE,
                          deleted_at |-> t] IN
  IF ok THEN [ret |-> TRUE,
              log |-> create_event(l, session_id, DeletedMarker,
                                   deletion_marker)]
  ELSE [ret |-> FALSE, log |-> l]

\* ---- echo_ink_orchestrator.py: helpers ----------------------------------
\* f"[{field.replace('_', ' ').title()} - TO BE COMPLETED]"
ToBeCompleted(field) == <<"[", FieldTitle[field], " - TO BE COMPLETED]">>

\* f"[{field.replace('_', ' ').title()}]"
DefaultText(field) == <<"[", FieldTitle[field], "]">>

\* structure.format(**mapping): KeyError when a placeholder has no value
Format(structure, mapping) ==
  IF Range(structure) \subseteq DOMAIN mapping
  THEN [raised |-> FALSE,
        content |-> [i \in 1..Len(structure) |-> mapping[structure[i]]]]
  ELSE [raised |-> TRUE, content |-> <<>>]

\* every field of the template that is no key of fields, the optional
\* ones too
get_unset_fields(session_data) ==
  SelectSeq(session_data.required_fields \o session_data.optional_fields,
            LAMBDA field : field \notin DOMAIN session_data.fields)

\* _get_missing_required_fields: the required fields that are no key of
\* fields, in the order of required_fields
_get_missing_required_fields(session_data) ==
  SelectSeq(session_data.required_fields,
            LAMBDA field : field \notin DOMAIN session_data.fields)

\* a completion status whose optional count is the number of keys of
\* fields
get_completion_status_counting_keys(session_data) ==
  LET missing_required == _get_missing_required_fields(session_data)
      total_required == Len(session_data.required_fields)
      completed_required == total_required - Len(missing_required)
      optional_fields == session_data.optional_fields
      completed_optional == Cardinality(DOMAIN session_data.fields)
  IN [required_complete |-> Len(missing_required) = 0,
      required_progress |-> <<completed_required, total_required>>,
      optional_progress |-> <<completed_optional, Len(optional_fields)>>,
      missing_required |-> missing_required]

\* _get_completion_status; "a/b" progress strings are pairs <<a, b>>
_get_completion_status(session_data) ==
  LET missing_required == _get_missing_required_fields(session_data)
      total_required == Len(session_data.required_fields)
      completed_required == total_required - Len(missing_required)
      optional_fields == session_data.optional_fields
      completed_optional ==
        Len(SelectSeq(optional_fields,
                      LAMBDA f : f \in DOMAIN session_data.fields))
  IN [required_complete |-> Len(missing_required) = 0,
      required_progress |-> <<completed_required, total_required>>,
      optional_progress |-> <<completed_optional, Len(optional_fields)>>,
      missing_required |-> missing_required]

\* open(path, 'a').write(content): the content goes after what the file
\* holds
AppendFile(f, path, content) ==
  (path :> (IF path \in DOMAIN f THEN f[path] ELSE <<>>) \o content) @@ f

\* open(path, 'w').write(content)
WriteFile(f, path, content) == (path :> content) @@ f

\* _regenerate_document_file_from_data: the draft rendering written to
\* document_path; nothing is written without a path or a template
_regenerate_document_file_from_data(session_data, f) ==
  LET document_path == session_data.document_path
      template == get_template(session_data.doc_type)
      current_fields == session_data.fields
      names == Range(template[1].required_fields)
                 \cup Range(template[1].optional_fields)
      all_fields_data ==
        [field \in names |->
           IF field \in DOMAIN current_fields THEN current_fields[field]
           ELSE ToBeCompleted(field)]
        @@ ("course_code" :> Text(session_data.course_code))
        @@ ("title" :> Text(session_data.title))
      out == Format(template[1].structure, all_fields_data)
  IN IF document_path = NoPath \/ template = <<>>
     THEN [raised |-> FALSE, files |-> f, wrote |-> {}]
     ELSE IF out.raised
     THEN [raised |-> TRUE, files |-> f, wrote |-> {}]
     ELSE [raised |-> FALSE,
           files |-> WriteFile(f, document_path, out.content),
           wrote |-> {document_path}]

\* templates.populate_template: the final rendering; it writes
\* course_code, title and a default for every unset optional field INTO
\* the fields dict it is given, and returns that dict formatted
populate_template(template, fields, course_code, title) ==
  LET with_defaults ==
        ("course_code" :> Text(course_code)) @@ ("title" :> Text(title))
          @@ fields
      filled ==
        [k \in DOMAIN with_defaults \cup Range(template.optional_fields) |->
           IF k \in DOMAIN with_defaults THEN with_defaults[k]
           ELSE DefaultText(k)]
      out == Format(template.structure, filled)
  IN [raised |-> out.raised, content |-> out.content, fields |-> filled]

\* the bytes weasyprint derives from a rendered text
Pdf(content) == <<Text("%PDF")>> \o content

\* _generate_pdf_from_markdown: reads md_path, writes pdf_path; raises
\* when the file is missing or the derivation fails (pdf_ok = FALSE)
_generate_pdf_from_markdown(f, md_path, pdf_path, pdf_ok) ==
  IF md_path \in DOMAIN f /\ pdf_ok
  THEN [raised |-> FALSE, files |-> WriteFile(f, pdf_path, Pdf(f[md_path])),
        wrote |-> {pdf_path}]
  ELSE [raised |-> TRUE, files |-> f, wrote |-> {}]

\* ---- echo_ink_orchestrator.py: the session tools --------------------------
\* the session id that stands for "the latest session"
Latest == <<"latest">>

\* the JSON object a tool returns, with every key it may carry
NoResult ==
  [op |-> "", success |-> FALSE, error |-> "", session_id |-> <<>>,
   available_fields |-> <<>>, missing_fields |-> <<>>,
   completion_status |-> <<>>, file_path |-> NoPath,
   md_file_path |-> NoPath, pdf_file_path |-> NoPath,
   final_content |-> <<>>, required_fields |-> <<>>,
   optional_fields |-> <<>>, deleted_files |-> <<>>,
   field_name |-> "", field_value |-> <<>>]

\* one tool call as its collaborators saw it: the session_id and
\* field_name arguments, the order the retrieval answered in, the session
\* the call resolved, what the store call returned ("none" when it made
\* none), whether the PDF derivation raised, the files written and removed
NoIo ==
  [named |-> <<>>, field_name |-> "", order |-> "asc", session_id |-> <<>>,
   store_ret |-> "none", pdf |-> "none", wrote |-> {}, removed |-> {}]

\* the outcome of one tool call
Outcome(l, f, r, i) == [log |-> l, files |-> f, result |-> r, io |-> i]

\* the lookup every session tool starts with: get_latest_session for
\* "latest", get_session otherwise
Resolve(l, session_id, order) ==
  IF session_id = Latest THEN get_latest_session(l, order)
  ELSE get_session(l, session_id)

\* the error of a failed lookup
LookupError(session_id) ==
  IF session_id = Latest THEN "No sessions available"
  ELSE "Session not found"

\* the bool a store method returns
Bool(b) == IF b THEN "True" ELSE "False"

\* a create_new_session that reports an unregistered type as it reports
\* a store that refused the session
create_new_session_one_error(l, f, t, doc_type, course_code, title, ok) ==
  LET base == [NoResult EXCEPT !.op = "create_new_session"]
      template == get_template(doc_type)
      session_id == <<course_code, doc_type, t>>
      file_path == generate_filename(course_code, doc_type, title)
      session_data ==
        [session_id |-> session_id, doc_type |-> doc_type,
         course_code |-> course_code, title |-> title, fields |-> <<>>,
         template_name |-> template[1].name,
         required_fields |-> template[1].required_fields,
         optional_fields |-> template[1].optional_fields,
         created_at |-> t, last_updated |-> t,
         document_path |-> file_path, pdf_path |-> NoPath]
      stored == create_session(l, session_data, ok)
  IN IF template = <<>> \/ ~stored.ret
     THEN Outcome(l, f,
            [base EXCEPT !.error = "Failed to store session in memory"],
            NoIo)
     ELSE Outcome(stored.log, f,
            [base EXCEPT !.success = TRUE, !.session_id = session_id,
                         !.file_path = file_path,
                         !.required_fields = template[1].required_fields,
                         !.optional_fields = template[1].optional_fields],
            [NoIo EXCEPT !.session_id = session_id, !.store_ret = "True"])

\* create_new_session
create_new_session(l, f, t, doc_type, course_code, title, ok) ==
  LET base == [NoResult EXCEPT !.op = "create_new_session"]
      template == get_template(doc_type)
      session_id == <<course_code, doc_type, t>>
      file_path == generate_filename(course_code, doc_type, title)
      session_data ==
        [session_id |-> session_id, doc_type |-> doc_type,
         course_code |-> course_code, title |-> title, fields |-> <<>>,
         template_name |-> template[1].name,
         required_fields |-> template[1].required_fields,
         optional_fields |-> template[1].optional_fields,
         created_at |-> t, last_updated |-> t,
         document_path |-> file_path, pdf_path |-> NoPath]
      stored == create_session(l, session_data, ok)
  IN IF template = <<>>
     THEN Outcome(l, f, [base EXCEPT !.error = "Unknown document type"],
                  NoIo)
     ELSE IF ~stored.ret
     THEN Outcome(l, f,
            [base EXCEPT !.error = "Failed to store session in memory"],
            [NoIo EXCEPT !.store_ret = "False"])
     ELSE Outcome(stored.log, f,
            [base EXCEPT !.success = TRUE, !.session_id = session_id,
                         !.file_path = file_path,
                         !.required_fields = template[1].required_fields,
                         !.optional_fields = template[1].optional_fields],
            [NoIo EXCEPT !.session_id = session_id, !.store_ret = "True"])

\* a validation that lets every field name through
AnyFieldName(session_data, field_name) == TRUE

\* update_session_field's validation of the field name:
\* field_name in required_fields + optional_fields
ValidFieldName(session_data, field_name) ==
  field_name \in Range(session_data.required_fields
                         \o session_data.optional_fields)

\* update_session_field from the lookup on: found is what the lookup
\* returned, l and f are the memory and the files when the rest runs
update_found(found, l, f, t, session_id, field_name, field_value, ok, order) ==
  LET base == [NoResult EXCEPT !.op = "update_session_field"]
      call == [NoIo EXCEPT !.named = session_id, !.field_name = field_name,
                           !.order = order]
      session_data == found[1]
      all_fields == session_data.required_fields
                      \o session_data.optional_fields
      updated ==
        [session_data EXCEPT
           !.fields = (field_name :> field_value) @@ session_data.fields,
           !.last_updated = t]
      stored == update_session(l, updated.session_id, updated, t, ok)
      file == _regenerate_document_file_from_data(updated, f)
      io == [call EXCEPT !.session_id = updated.session_id,
                         !.store_ret = Bool(stored.ret)]
  IN IF found = <<>>
     THEN Outcome(l, f, [base EXCEPT !.error = LookupError(session_id)],
                  call)
     ELSE IF ~ValidFieldName(session_data, field_name)
     THEN Outcome(l, f,
            [base EXCEPT !.error = "Field not valid",
                         !.available_fields = all_fields],
            [call EXCEPT !.session_id = session_data.session_id])
     ELSE IF file.raised
     THEN Outcome(stored.log, f, [base EXCEPT !.error = "exception"], io)
     ELSE Outcome(stored.log, file.files,
            [base EXCEPT !.success = TRUE,
                         !.session_id = updated.session_id,
                         !.field_name = field_name,
                         !.field_value = field_value,
                         !.file_path = updated.document_path,
                         !.completion_status =
                            <<_get_completion_status(updated)>>],
            [io EXCEPT !.wrote = file.wrote])

\* update_session_field: the lookup and the rest, with nothing in between
update_session_field(l, f, t, session_id, field_name, field_value, ok, order) ==
  update_found(Resolve(l, session_id, order), l, f, t, session_id,
               field_name, field_value, ok, order)

\* a finalize_session that stores the final paths before it checks the
\* required fields
finalize_session_marking_first(l, f, t, session_id, ok, pdf_ok, order) ==
  LET base == [NoResult EXCEPT !.op = "finalize_session"]
      found == Resolve(l, session_id, order)
      session_data == found[1]
      status == _get_completion_status(session_data)
      template == get_template(session_data.doc_type)
      populated == populate_template(template[1], session_data.fields,
                                     session_data.course_code,
                                     session_data.title)
      final_filename ==
        PathReplace(generate_filename(session_data.course_code,
                                      session_data.doc_type,
                                      session_data.title),
                    "_DRAFT", "_FINAL")
      final_md_path == final_filename
      final_pdf_path == PathReplace(final_filename, ".md", ".pdf")
      written == WriteFile(f, final_md_path, populated.content)
      pdf == _generate_pdf_from_markdown(written, final_md_path,
                                        final_pdf_path, pdf_ok)
      pathed == [session_data EXCEPT !.fields = populated.fields,
                                     !.document_path = final_md_path,
                                     !.pdf_path = final_pdf_path]
      stored == update_session(l, pathed.session_id, pathed, t, ok)
      marked == update_session(l, session_data.session_id,
                  [session_data EXCEPT !.document_path = final_md_path,
                                       !.pdf_path = final_pdf_path],
                  t, ok)
      call == [NoIo EXCEPT !.named = session_id, !.order = order]
      io == [call EXCEPT !.session_id = session_data.session_id]
  IN IF found = <<>>
     THEN Outcome(l, f, [base EXCEPT !.error = LookupError(session_id)],
                  call)
     ELSE IF ~status.required_complete
     THEN Outcome(marked.log, f,
            [base EXCEPT
               !.error = "Cannot finalize - missing required fields",
               !.missing_fields = status.missing_required],
            io)
     ELSE IF template = <<>> \/ populated.raised
     THEN Outcome(l, f, [base EXCEPT !.error = "exception"], io)
     ELSE IF pdf.raised
     THEN Outcome(l, written, [base EXCEPT !.error = "exception"],
            [io EXCEPT !.pdf = "raised", !.wrote = {final_md_path}])
     ELSE Outcome(stored.log, pdf.files,
            [base EXCEPT !.success = TRUE,
                         !.session_id = pathed.session_id,
                         !.final_content = populated.content,
                         !.md_file_path = final_md_path,
                         !.pdf_file_path = final_pdf_path],
            [io EXCEPT !.pdf = "ok", !.store_ret = Bool(stored.ret),
                       !.wrote = {final_md_path, final_pdf_path}])

\* finalize_session
finalize_session(l, f, t, session_id, ok, pdf_ok, order) ==
  LET base == [NoResult EXCEPT !.op = "finalize_session"]
      found == Resolve(l, session_id, order)
      session_data == found[1]
      status == _get_completion_status(session_data)
      template == get_template(session_data.doc_type)
      populated == populate_template(template[1], session_data.fields,
                                     session_data.course_code,
                                     session_data.title)
      final_filename ==
        PathReplace(generate_filename(session_data.course_code,
                                      session_data.doc_type,
                                      session_data.title),
                    "_DRAFT", "_FINAL")
      final_md_path == final_filename
      final_pdf_path == PathReplace(final_filename, ".md", ".pdf")
      written == WriteFile(f, final_md_path, populated.content)
      pdf == _generate_pdf_from_markdown(written, final_md_path,
                                        final_pdf_path, pdf_ok)
      pathed == [session_data EXCEPT !.fields = populated.fields,
                                     !.document_path = final_md_path,
                                     !.pdf_path = final_pdf_path]
      stored == update_session(l, pathed.session_id, pathed, t, ok)
      call == [NoIo EXCEPT !.named = session_id, !.order = order]
      io == [call EXCEPT !.session_id = session_data.session_id]
  IN IF found = <<>>
     THEN Outcome(l, f, [base EXCEPT !.error = LookupError(session_id)],
                  call)
     ELSE IF ~status.required_complete
     THEN Outcome(l, f,
            [base EXCEPT
               !.error = "Cannot finalize - missing required fields",
               !.missing_fields = status.missing_required],
            io)
     ELSE IF template = <<>> \/ populated.raised
     THEN Outcome(l, f, [base EXCEPT !.error = "exception"], io)
     ELSE IF pdf.raised
     THEN Outcome(l, written, [base EXCEPT !.error = "exception"],
            [io EXCEPT !.pdf = "raised", !.wrote = {final_md_path}])
     ELSE Outcome(stored.log, pdf.files,
            [base EXCEPT !.success = TRUE,
                         !.session_id = pathed.session_id,
                         !.final_content = populated.content,
                         !.md_file_path = final_md_path,
                         !.pdf_file_path = final_pdf_path],
            [io EXCEPT !.pdf = "ok", !.store_ret = Bool(stored.ret),
                       !.wrote = {final_md_path, final_pdf_path}])

\* a regenerate_document that saves the session it rendered, as
\* update_session_field does
regenerate_document_saving(l, f, session_id, order) ==
  LET base == [NoResult EXCEPT !.op = "regenerate_document"]
      found == Resolve(l, session_id, order)
      session_data == found[1]
      file == _regenerate_document_file_from_data(session_data, f)
      stored == update_session(l, session_data.session_id, session_data,
                               session_data.last_updated + 1, TRUE)
      call == [NoIo EXCEPT !.named = session_id, !.order = order]
      io == [call EXCEPT !.session_id = session_data.session_id]
  IN IF found = <<>>
     THEN Outcome(l, f, [base EXCEPT !.error = LookupError(session_id)],
                  call)
     ELSE IF file.raised
     THEN Outcome(l, f, [base EXCEPT !.error = "exception"], io)
     ELSE Outcome(stored.log, file.files,
            [base EXCEPT !.success = TRUE,
                         !.file_path = session_data.document_path],
            [io EXCEPT !.wrote = file.wrote])

\* regenerate_document
regenerate_document(l, f, session_id, order) ==
  LET base == [NoResult EXCEPT !.op = "regenerate_document"]
      found == Resolve(l, session_id, order)
      session_data == found[1]
      file == _regenerate_document_file_from_data(session_data, f)
      call == [NoIo EXCEPT !.named = session_id, !.order = order]
      io == [call EXCEPT !.session_id = session_data.session_id]
  IN IF found = <<>>
     THEN Outcome(l, f, [base EXCEPT !.error = LookupError(session_id)],
                  call)
     ELSE IF file.raised
     THEN Outcome(l, f, [base EXCEPT !.error = "exception"], io)
     ELSE Outcome(l, file.files,
            [base EXCEPT !.success = TRUE,
                         !.file_path = session_data.document_path],
            [io EXCEPT !.wrote = file.wrote])

\* the files of f other than those in paths
RemoveFiles(f, paths) == [p \in DOMAIN f \ paths |-> f[p]]

\* delete_document(path): the removal the artifact sink does, best
\* effort: rm names what it manages to remove ("fail": nothing, "md": the
\* document, "md+pdf": the document and the PDF beside it); its message
\* holds "Success" when the document went and ".pdf" when the PDF went too
delete_document(f, path, rm) ==
  LET pdf_path == PathReplace(path, ".md", ".pdf") IN
  IF rm = "fail" \/ path \notin DOMAIN f
  THEN [files |-> f, success |-> FALSE, pdf |-> FALSE, removed |-> {}]
  ELSE IF rm = "md+pdf" /\ pdf_path \in DOMAIN f
  THEN [files |-> RemoveFiles(f, {path, pdf_path}), success |-> TRUE,
        pdf |-> TRUE, removed |-> {path, pdf_path}]
  ELSE [files |-> RemoveFiles(f, {path}), success |-> TRUE,
        pdf |-> FALSE, removed |-> {path}]

\* a delete_session that gives up, with an error and without the
\* deletion marker, when a removal it asked for did not happen
delete_session_strict(l, f, t, session_id, delete_files, rm, ok, order) ==
  LET base == [NoResult EXCEPT !.op = "delete_session"]
      found == Resolve(l, session_id, order)
      session_data == found[1]
      sid == IF session_id = Latest THEN session_data.session_id
             ELSE session_id
      document_path == session_data.document_path
      removing == delete_files /\ document_path # NoPath
      gone == IF removing THEN delete_document(f, document_path, rm)
              ELSE [files |-> f, success |-> FALSE, pdf |-> FALSE,
                    removed |-> {}]
      deleted_files ==
        (IF gone.success THEN <<document_path>> ELSE <<>>)
          \o (IF gone.success /\ gone.pdf
              THEN <<PathReplace(document_path, ".md", ".pdf")>>
              ELSE <<>>)
      stored == storage_delete_session(l, sid, t, ok)
      call == [NoIo EXCEPT !.named = session_id, !.order = order]
  IN IF found = <<>>
     THEN Outcome(l, f, [base EXCEPT !.error = LookupError(session_id)],
                  call)
     ELSE IF removing /\ ~gone.success
     THEN Outcome(l, f, [base EXCEPT !.error = "exception"],
                  [call EXCEPT !.session_id = sid])
     ELSE Outcome(stored.log, gone.files,
            [base EXCEPT !.success = TRUE, !.session_id = sid,
                         !.deleted_files = deleted_files],
            [call EXCEPT !.session_id = sid,
                         !.store_ret = Bool(stored.ret),
                         !.removed = gone.removed])

\* delete_session (the tool)
delete_session(l, f, t, session_id, delete_files, rm, ok, order) ==
  LET base == [NoResult EXCEPT !.op = "delete_session"]
      found == Resolve(l, session_id, order)
      session_data == found[1]
      sid == IF session_id = Latest THEN session_data.session_id
             ELSE session_id
      document_path == session_data.document_path
      removing == delete_files /\ document_path # NoPath
      gone == IF removing THEN delete_document(f, document_path, rm)
              ELSE [files |-> f, success |-> FALSE, pdf |-> FALSE,
                    removed |-> {}]
      deleted_files ==
        (IF gone.success THEN <<document_path>> ELSE <<>>)
          \o (IF gone.success /\ gone.pdf
              THEN <<PathReplace(document_path, ".md", ".pdf")>>
              ELSE <<>>)
      stored == storage_delete_session(l, sid, t, ok)
      call == [NoIo EXCEPT !.named = session_id, !.order = order]
  IN IF found = <<>>
     THEN Outcome(l, f, [base EXCEPT !.error = LookupError(session_id)],
                  call)
     ELSE Outcome(stored.log, gone.files,
            [base EXCEPT !.success = TRUE, !.session_id = sid,
                         !.deleted_files = deleted_files],
            [call EXCEPT !.session_id = sid,
                         !.store_ret = Bool(stored.ret),
                         !.removed = gone.removed])


\* ---- document_tools.py --------------------------------------------------
\* list_template_types: list(TEMPLATES.keys())
list_template_types ==
  <<"syllabus", "exam", "assignment", "lecture", "class_content", "lab">>

\* a create_educational_document that renders without validating the
\* fields
create_document_unvalidated(f, doc_type, course_code, title, fields, write_ok) ==
  LET base == [NoResult EXCEPT !.op = "create_educational_document"]
      template == get_template(doc_type)
      out == populate_template(template[1], fields, course_code, title)
      file_path == generate_filename(course_code, doc_type, title)
  IN IF template = <<>>
     THEN Outcome(<<>>, f,
            [base EXCEPT !.error = "Unknown document type",
                         !.available_fields = list_template_types],
            NoIo)
     ELSE IF out.raised \/ ~write_ok
     THEN Outcome(<<>>, f, [base EXCEPT !.error = "exception"], NoIo)
     ELSE Outcome(<<>>, WriteFile(f, file_path, out.content),
            [base EXCEPT !.success = TRUE, !.file_path = file_path,
                         !.final_content = out.content],
            [NoIo EXCEPT !.wrote = {file_path}])

\* create_educational_document: the message it returns is kept as a
\* result: success for the success message, error for the kind of error
\* message, available_fields for the types and missing_fields for the
\* fields an error message names; write_ok = FALSE is an open() or
\* write() that raises
create_educational_document(f, doc_type, course_code, title, fields, write_ok) ==
  LET base == [NoResult EXCEPT !.op = "create_educational_document"]
      template == get_template(doc_type)
      valid == validate_template_fields(doc_type, fields)
      out == populate_template(template[1], fields, course_code, title)
      file_path == generate_filename(course_code, doc_type, title)
  IN IF template = <<>>
     THEN Outcome(<<>>, f,
            [base EXCEPT !.error = "Unknown document type",
                         !.available_fields = list_template_types],
            NoIo)
     ELSE IF ~valid[1]
     THEN Outcome(<<>>, f,
            [base EXCEPT !.error = "Missing required fields",
                         !.missing_fields = valid[2]],
            NoIo)
     ELSE IF out.raised \/ ~write_ok
     THEN Outcome(<<>>, f, [base EXCEPT !.error = "exception"], NoIo)
     ELSE Outcome(<<>>, WriteFile(f, file_path, out.content),
            [base EXCEPT !.success = TRUE, !.file_path = file_path,
                         !.final_content = out.content],
            [NoIo EXCEPT !.wrote = {file_path}])

\* ---- echo_prepare_agent/session_manager.py -------------------------------
\* A dict is a function from its keys, {} is <<>>; a timestamp is the clock
\* reading; json.dumps / json.loads of a dict of strings, lists and dicts
\* give the dict back.

\* s3_client.get_object: the key is read ("ok") or the request fails
\* ("error"); a key the bucket does not hold is NoSuchKey
GetOutcomes == {"ok", "error"}

\* self.state_key
state_key(session_id) == <<"sessions", session_id, "state.json">>

\* dict.update
DictUpdate(d, updates) == updates @@ d

\* SessionManager.save_state: stamps session_id and updated_at, stamps
\* created_at when the state has none, and puts the object; put_ok = FALSE
\* is a put_object that raises
save_state(b, session_id, state, t, put_ok) ==
  LET stamped == DictUpdate(state, [session_id |-> session_id,
                                    updated_at |-> t])
      saved == IF "created_at" \in DOMAIN stamped THEN stamped
               ELSE DictUpdate(stamped, [created_at |-> t])
  IN IF put_ok
     THEN [bucket |-> (state_key(session_id) :> saved) @@ b, ret |-> TRUE]
     ELSE [bucket |-> b, ret |-> FALSE]

\* SessionManager.load_state: None (<<>>) for NoSuchKey and for every
\* other exception
load_state(b, session_id, get) ==
  IF state_key(session_id) \notin DOMAIN b \/ get = "error" THEN <<>>
  ELSE <<b[state_key(session_id)]>>

\* SessionManager.update_state
update_state(b, session_id, updates, t, get, put_ok) ==
  LET loaded == load_state(b, session_id, get)
      state == IF loaded = <<>> THEN <<>> ELSE loaded[1]
  IN save_state(b, session_id, DictUpdate(state, updates), t, put_ok)

\* SessionManager.add_document_to_history
add_document_to_history(b, session_id, doc_id, doc_type, title, t, get, put_ok) ==
  LET loaded == load_state(b, session_id, get)
      state == IF loaded = <<>> THEN <<>> ELSE loaded[1]
      documents == IF "documents" \in DOMAIN state THEN state.documents
                   ELSE <<>>
      existing == SelectSeq(documents, LAMBDA d : d.id = doc_id)
      updated == [i \in 1..Len(documents) |->
                    IF documents[i].id = doc_id
                    THEN DictUpdate(documents[i],
                                    [title |-> title, updated_at |-> t])
                    ELSE documents[i]]
      added == Append(documents, [id |-> doc_id, type |-> doc_type,
                                  title |-> title, created_at |-> t])
  IN save_state(b, session_id,
       DictUpdate(state, [documents |-> IF existing # <<>> THEN updated
                                        ELSE added]),
       t, put_ok)

\* ---- echo_prepare_agent/document_storage.py ------------------------------
\* DocumentStorageManager._get_document_key
_get_document_key(session_id, doc_id, extension) ==
  <<"sessions", session_id, "documents", doc_id, extension>>

\* DocumentStorageManager._get_metadata_key
_get_metadata_key(session_id, doc_id) ==
  <<"sessions", session_id, "documents", doc_id, "_metadata.json">>

\* DocumentStorageManager.save_document: puts the content, then the
\* metadata stamped with doc_id, doc_type, session_id, created_at and
\* updated_at; a put that raises ends the call with False and leaves what
\* was put before it
save_document(b, session_id, doc_id, content, doc_type, metadata, t, put_md, put_meta) ==
  LET with_md == (_get_document_key(session_id, doc_id, "md") :> content)
                   @@ b
      stamped == DictUpdate(metadata,
                   [doc_id |-> doc_id, doc_type |-> doc_type,
                    session_id |-> session_id, created_at |-> t,
                    updated_at |-> t])
  IN IF ~put_md THEN [bucket |-> b, ret |-> FALSE]
     ELSE IF ~put_meta THEN [bucket |-> with_md, ret |-> FALSE]
     ELSE [bucket |-> (_get_metadata_key(session_id, doc_id) :> stamped)
                        @@ with_md,
           ret |-> TRUE]

\* DocumentStorageManager.load_document: None (<<>>) when the content
\* cannot be read, {} for metadata that cannot be read
load_document(b, session_id, doc_id, get_md, get_meta) ==
  LET md_key == _get_document_key(session_id, doc_id, "md")
      metadata_key == _get_metadata_key(session_id, doc_id)
  IN IF md_key \notin DOMAIN b \/ get_md = "error" THEN <<>>
     ELSE <<[content |-> b[md_key],
             metadata |-> IF metadata_key \notin DOMAIN b
                             \/ get_meta = "error"
                          THEN <<>> ELSE b[metadata_key]]>>

\* DocumentStorageManager.update_document
update_document(b, session_id, doc_id, content, metadata_updates, t, get_md, get_meta, put_md, put_meta) ==
  LET existing == load_document(b, session_id, doc_id, get_md, get_meta)
      metadata == DictUpdate(DictUpdate(existing[1].metadata,
                                        metadata_updates),
                             [updated_at |-> t])
      doc_type == IF "doc_type" \in DOMAIN metadata THEN metadata.doc_type
                  ELSE "unknown"
  IN IF existing = <<>> THEN [bucket |-> b, ret |-> FALSE]
     ELSE save_document(b, session_id, doc_id, content, doc_type, metadata,
                        t, put_md, put_meta)
\* ---- state ----------------------------------------------------------------
VARIABLES
  log,          \* the events of the actor in AgentCore memory, oldest first
  files,        \* the documents directory: path -> content
  now,          \* the clock
  result,       \* what the last tool call returned
  io,           \* what the last tool call did with its collaborators
  run_start,    \* how many events the memory held when this run began
  calls,        \* the tool calls in flight: caller -> what it holds
  SESSION_STORAGE,  \* the module's storage object: <<>> for None, else
                    \* <<actor_id>> of the AgentCoreSessionStorage
  other_scopes, \* the events the memory holds under the actor ids the
                \* storage is not bound to: actor_id -> events
  bucket        \* the S3 bucket of echo_prepare_agent: key -> body

vars == <<log, files, now, result, io, run_start, calls, SESSION_STORAGE,
          other_scopes, bucket>>

\* the actor_id agent.py uses when it is given none
DefaultActor == "echo_ink_user"

\* ---- inputs ---------------------------------------------------------------
DocTypes == {"lecture", "memo"}

CourseCodes == {"CS101"}

Titles == {"Intro: CS"}

\* <<field_name, field_value>> pairs
FieldInputs ==
  {<<"lecture_number", Text("2")>>, <<"main_content", Text("Sets")>>,
   <<"nonexistent_field", Text("x")>>}

\* a session id no session was created under
NeverCreated == <<"CS999", "lecture", 0>>

\* the session ids a caller may name
SessionArgs ==
  {log[i].session_id : i \in 1..Len(log)} \cup {Latest, NeverCreated}

\* the retrieval orders that may matter to a call
OrdersFor(session_id) == IF session_id = Latest THEN Orders ELSE {"asc"}

\* what delete_document may manage to remove
RmOutcomes(delete_files) ==
  IF delete_files THEN {"fail", "md", "md+pdf"} ELSE {"fail"}

\* what earlier runs may have left behind, as the memory and the
\* documents directory outlive the process: nothing (EmptyRun), a session
\* created and given two of its three required fields (DraftRun), or that
\* session with all three (CompleteRun); each is what the tools leave
EmptyRun == [log |-> <<>>, files |-> <<>>]

Created == create_new_session(<<>>, <<>>, 0, "lecture", "CS101",
                              "Intro: CS", TRUE)

Numbered == update_session_field(Created.log, Created.files, 0,
                                 Created.result.session_id,
                                 "lecture_number", Text("1"), TRUE, "asc")

DraftRun == update_session_field(Numbered.log, Numbered.files, 0,
                                 Created.result.session_id,
                                 "lecture_date", Text("Mon"), TRUE, "asc")

CompleteRun == update_session_field(DraftRun.log, DraftRun.files, 0,
                                    Created.result.session_id,
                                    "main_content", Text("Sets"), TRUE,
                                    "asc")

StartRuns == {EmptyRun, DraftRun, CompleteRun}

Init ==
  /\ \E start \in StartRuns :
       /\ log = start.log
       /\ files = start.files
       /\ run_start = Len(start.log)
  /\ now = 0
  /\ result = NoResult
  /\ io = NoIo
  /\ calls = <<>>
  /\ SESSION_STORAGE = <<DefaultActor>>
  /\ other_scopes = <<>>
  /\ bucket = <<>>

\* the readings the clock may give at the next call: time passes between
\* calls and does not run backwards
Times == {t \in {now, now + 1} : t <= MaxTime}

\* the caller holds no result of an earlier call: the tools are invoked
\* one at a time
Idle == result = NoResult

\* one tool call at clock reading t with outcome outcome.  Only a call
\* that stamps a record shows what the clock read, so `now` moves with
\* those calls.
Step(t, outcome) ==
  \E out \in {outcome} :
    /\ Len(out.log) - run_start <= MaxAppends
    /\ t = now \/ out.log # log
    /\ log' = out.log
    /\ files' = out.files
    /\ now' = t
    /\ result' = out.result
    /\ io' = out.io
    /\ UNCHANGED <<run_start, calls, SESSION_STORAGE, other_scopes,
                   bucket>>

CreateNewSession ==
  /\ Idle
  /\ \E t \in Times, doc_type \in DocTypes, course_code \in CourseCodes,
        title \in Titles, ok \in BOOLEAN :
       Step(t, create_new_session(log, files, t, doc_type, course_code,
                                  title, ok))

UpdateSessionField ==
  /\ Idle
  /\ \E t \in Times, session_id \in SessionArgs, fv \in FieldInputs,
        ok \in BOOLEAN :
       \E order \in OrdersFor(session_id) :
         Step(t, update_session_field(log, files, t, session_id, fv[1],
                                      fv[2], ok, order))

FinalizeSession ==
  /\ Idle
  /\ \E t \in Times, session_id \in SessionArgs, ok \in BOOLEAN,
        pdf_ok \in BOOLEAN :
       \E order \in OrdersFor(session_id) :
         Step(t, finalize_session(log, files, t, session_id, ok, pdf_ok,
                                  order))

RegenerateDocument ==
  /\ Idle
  /\ \E session_id \in SessionArgs :
       \E order \in OrdersFor(session_id) :
         Step(now, regenerate_document(log, files, session_id, order))

DeleteSession ==
  /\ Idle
  /\ \E t \in Times, session_id \in SessionArgs, delete_files \in BOOLEAN,
        ok \in BOOLEAN :
       \E order \in OrdersFor(session_id), rm \in RmOutcomes(delete_files) :
         Step(t, delete_session(log, files, t, session_id, delete_files, rm,
                                ok, order))

\* the caller takes the result and is free to make its next call
Return ==
  /\ result # NoResult
  /\ result' = NoResult
  /\ io' = NoIo
  /\ UNCHANGED <<log, files, now, run_start, calls, SESSION_STORAGE,
               other_scopes, bucket>>

Next ==
  \/ CreateNewSession
  \/ UpdateSessionField
  \/ FinalizeSession
  \/ RegenerateDocument
  \/ DeleteSession
  \/ Return

Spec == Init /\ [][Next]_vars

\* ---- the store called directly ---------------------------------------------
\* AgentCoreSessionStorage is a public class: its methods take any session
\* id and any session state, whatever the tools above pass to them.

\* the session ids a caller of the store may name
StoreIds == {<<"CS101", "lecture", 0>>, <<"CS102", "lecture", 0>>}

\* the field mappings a caller may hand to the store; one value holds the
\* text of the snapshot prefix
StoreFields == {<<>>, ("main_content" :> <<"see ", Marker, "notes">>)}

\* the readings of datetime.now(), the local wall clock: it may repeat a
\* reading and may step back
ClockReadings == 0..MaxTime

\* a session state as create_new_session lays it out
SessionState(session_id, fields, t) ==
  LET template == get_template(session_id[2]) IN
  [session_id |-> session_id, doc_type |-> session_id[2],
   course_code |-> session_id[1], title |-> "Intro: CS", fields |-> fields,
   template_name |-> template[1].name,
   required_fields |-> template[1].required_fields,
   optional_fields |-> template[1].optional_fields,
   created_at |-> session_id[3], last_updated |-> t,
   document_path |-> generate_filename(session_id[1], session_id[2],
                                       "Intro: CS"),
   pdf_path |-> NoPath]

StoreInit ==
  /\ log = <<>>
  /\ files = <<>>
  /\ now = 0
  /\ result = NoResult
  /\ io = NoIo
  /\ run_start = 0
  /\ calls = <<>>
  /\ SESSION_STORAGE = <<DefaultActor>>
  /\ other_scopes = <<>>
  /\ bucket = <<>>

\* a store method has returned: op and named say which call it was, ret
\* is what it returned (a bool, or whether a session came back) and
\* session_id the id of the session that came back
StoreReturned(op, named, ret, session_id) ==
  /\ result' = [NoResult EXCEPT !.op = op, !.success = ret,
                                !.session_id = session_id]
  /\ io' = [NoIo EXCEPT !.named = named, !.session_id = session_id,
                        !.store_ret = Bool(ret)]
  /\ UNCHANGED <<files, run_start, calls, SESSION_STORAGE, other_scopes,
                 bucket>>

StoreCreateSession ==
  /\ Len(log) <= MaxAppends
  /\ \E session_id \in StoreIds, fields \in StoreFields,
        t \in ClockReadings, ok \in BOOLEAN :
       \E out \in {create_session(log, SessionState(session_id, fields, t),
                                  ok)} :
         /\ log' = out.log
         /\ now' = t
         /\ StoreReturned("create_session", session_id, out.ret, <<>>)

StoreUpdateSession ==
  /\ Len(log) <= MaxAppends
  /\ \E session_id \in StoreIds, fields \in StoreFields,
        t \in ClockReadings, ok \in BOOLEAN :
       \E out \in {update_session(log, session_id,
                                  SessionState(session_id, fields, now),
                                  t, ok)} :
         /\ log' = out.log
         /\ now' = t
         /\ StoreReturned("update_session", session_id, out.ret, <<>>)

StoreDeleteSession ==
  /\ Len(log) <= MaxAppends
  /\ \E session_id \in StoreIds, t \in ClockReadings, ok \in BOOLEAN :
       \E out \in {storage_delete_session(log, session_id, t, ok)} :
         /\ log' = out.log
         /\ now' = t
         /\ StoreReturned("delete_session", session_id, out.ret, <<>>)

StoreGetSession ==
  \E session_id \in StoreIds :
    \E found \in {get_session(log, session_id)} :
      /\ StoreReturned("get_session", session_id, found # <<>>,
                       IF found = <<>> THEN <<>> ELSE found[1].session_id)
      /\ UNCHANGED <<log, now>>

StoreGetAllSessions ==
  \E order \in Orders :
    \E all \in {get_all_sessions(log, order)} :
      /\ StoreReturned("get_all_sessions", <<>>, all # <<>>, <<>>)
      /\ UNCHANGED <<log, now>>

StoreGetLatestSession ==
  \E order \in Orders :
    \E found \in {get_latest_session(log, order)} :
      /\ StoreReturned("get_latest_session", <<>>, found # <<>>,
                       IF found = <<>> THEN <<>> ELSE found[1].session_id)
      /\ UNCHANGED <<log, now>>

StoreNext ==
  \/ StoreCreateSession
  \/ StoreUpdateSession
  \/ StoreDeleteSession
  \/ StoreGetSession
  \/ StoreGetAllSessions
  \/ StoreGetLatestSession

StoreSpec == StoreInit /\ [][StoreNext]_vars

\* ---- two callers at once ---------------------------------------------------
\* The tools take no lock and the memory has no conditional write: two
\* callers (two requests, two processes) may each be inside
\* update_session_field, between its lookup and its update_session.
Callers == {1, 2}

\* a caller that has not called yet
NoCall ==
  [pc |-> "idle", session_id |-> <<>>, field_name |-> "",
   field_value |-> <<>>, order |-> "asc", found |-> <<>>, read_len |-> 0,
   wrote_at |-> 0, result |-> NoResult, io |-> NoIo]

RaceInit ==
  /\ \E start \in StartRuns :
       /\ log = start.log
       /\ files = start.files
       /\ run_start = Len(start.log)
  /\ now = 0
  /\ result = NoResult
  /\ io = NoIo
  /\ calls = [c \in Callers |-> NoCall]
  /\ SESSION_STORAGE = <<DefaultActor>>
  /\ other_scopes = <<>>
  /\ bucket = <<>>

\* caller c enters update_session_field and gets the session from the
\* store (lines 341-349)
Lookup(c) ==
  /\ calls[c].pc = "idle"
  /\ \E session_id \in SessionArgs, fv \in FieldInputs :
       \E order \in OrdersFor(session_id) :
         calls' = [calls EXCEPT ![c] =
                     [NoCall EXCEPT
                        !.pc = "read", !.session_id = session_id,
                        !.field_name = fv[1], !.field_value = fv[2],
                        !.order = order,
                        !.found = Resolve(log, session_id, order),
                        !.read_len = Len(log)]]
  /\ UNCHANGED <<log, files, now, result, io, run_start, SESSION_STORAGE,
               other_scopes, bucket>>

\* caller c goes on from what it read: validates, sets the field, calls
\* update_session, rewrites the document and returns (lines 351-378)
Update(c) ==
  /\ calls[c].pc = "read"
  /\ \E t \in Times, ok \in BOOLEAN :
       \E out \in {update_found(calls[c].found, log, files, t,
                                calls[c].session_id, calls[c].field_name,
                                calls[c].field_value, ok,
                                calls[c].order)} :
         /\ Len(out.log) - run_start <= MaxAppends + 1
         /\ log' = out.log
         /\ files' = out.files
         /\ now' = t
         /\ result' = out.result
         /\ io' = out.io
         /\ calls' = [calls EXCEPT ![c] =
                        [@ EXCEPT !.pc = "done",
                                  !.wrote_at = IF out.log = log THEN 0
                                               ELSE Len(out.log),
                                  !.result = out.result, !.io = out.io]]
  /\ UNCHANGED <<run_start, SESSION_STORAGE, other_scopes, bucket>>

RaceNext == \E c \in Callers : Lookup(c) \/ Update(c)

RaceSpec == RaceInit /\ [][RaceNext]_vars

\* ---- the template helpers applied to one session ------------------------
\* The validator, the completion status and the two renderings are
\* functions of a session state; here they are applied to a session of
\* every registered type with every combination of required fields set
\* and none, one or all of the optional ones.

\* the subsets of the optional fields a session may have set
OptionalChoices(optional_fields) ==
  {{}, {optional_fields[1]}, Range(optional_fields)}

\* the field mappings of a session of one type; a value is the text the
\* user gave, here the name of the field it was given for
TemplateFieldInputs(doc_type) ==
  LET template == TEMPLATES[doc_type] IN
  {[k \in R \cup O |-> Text(k)] :
     R \in SUBSET Range(template.required_fields),
     O \in OptionalChoices(template.optional_fields)}

TemplateInit ==
  /\ \E doc_type \in DOMAIN TEMPLATES :
       \E fields \in TemplateFieldInputs(doc_type) :
         log = create_session(<<>>,
                 SessionState(<<"CS101", doc_type, 0>>, fields, 0),
                 TRUE).log
  /\ files = <<>>
  /\ now = 0
  /\ result = NoResult
  /\ io = NoIo
  /\ run_start = 1
  /\ calls = <<>>
  /\ SESSION_STORAGE = <<DefaultActor>>
  /\ other_scopes = <<>>
  /\ bucket = <<>>

\* the session the helpers are applied to
TemplateSession == get_latest_session(log, "asc")[1]

\* a helper has returned r
TemplateReturned(r) ==
  /\ result' = r
  /\ io' = [NoIo EXCEPT !.session_id = TemplateSession.session_id]
  /\ UNCHANGED <<log, now, run_start, calls, SESSION_STORAGE,
               other_scopes, bucket>>

ValidateTemplateFields ==
  \E out \in {validate_template_fields(TemplateSession.doc_type,
                                       TemplateSession.fields)} :
    /\ TemplateReturned([NoResult EXCEPT
                           !.op = "validate_template_fields",
                           !.success = out[1], !.missing_fields = out[2]])
    /\ UNCHANGED files

GetMissingRequiredFields ==
  /\ TemplateReturned([NoResult EXCEPT
                         !.op = "_get_missing_required_fields",
                         !.missing_fields =
                           _get_missing_required_fields(TemplateSession)])
  /\ UNCHANGED files

GetCompletionStatus ==
  /\ TemplateReturned([NoResult EXCEPT
                         !.op = "_get_completion_status",
                         !.completion_status =
                           <<_get_completion_status(TemplateSession)>>])
  /\ UNCHANGED files

\* the draft rendering, written to the session's document
RenderDraft ==
  \E out \in {_regenerate_document_file_from_data(TemplateSession, files)} :
    /\ files' = out.files
    /\ TemplateReturned([NoResult EXCEPT
                           !.op = "_regenerate_document_file_from_data",
                           !.success = ~out.raised,
                           !.file_path = TemplateSession.document_path])

\* the final rendering, returned as text
RenderFinal ==
  \E out \in {populate_template(TEMPLATES[TemplateSession.doc_type],
                                TemplateSession.fields,
                                TemplateSession.course_code,
                                TemplateSession.title)} :
    /\ TemplateReturned([NoResult EXCEPT
                           !.op = "populate_template",
                           !.success = ~out.raised,
                           !.final_content = out.content])
    /\ UNCHANGED files

\* create_educational_document with the session's identity and fields,
\* for the session's type or an unregistered one
CreateEducationalDocument ==
  \E doc_type \in {TemplateSession.doc_type, "memo"}, write_ok \in BOOLEAN :
    \E out \in {create_educational_document(files, doc_type,
                    TemplateSession.course_code, TemplateSession.title,
                    TemplateSession.fields, write_ok)} :
      /\ files' = out.files
      /\ result' = out.result
      /\ io' = out.io
      /\ UNCHANGED <<log, now, run_start, calls, SESSION_STORAGE,
                     other_scopes, bucket>>

TemplateNext ==
  \/ CreateEducationalDocument
  \/ ValidateTemplateFields
  \/ GetMissingRequiredFields
  \/ GetCompletionStatus
  \/ RenderDraft
  \/ RenderFinal

TemplateSpec == TemplateInit /\ [][TemplateNext]_vars

\* ---- the tools with two sessions in the memory ----------------------------
\* what an earlier run left: the draft session and, beside it, a session
\* of another course
TwoSessionRun == create_new_session(DraftRun.log, DraftRun.files, 0,
                                    "lecture", "CS102", "Intro: CS", TRUE)

PairInit ==
  /\ log = TwoSessionRun.log
  /\ files = TwoSessionRun.files
  /\ run_start = Len(TwoSessionRun.log)
  /\ now = 0
  /\ result = NoResult
  /\ io = NoIo
  /\ calls = <<>>
  /\ SESSION_STORAGE = <<DefaultActor>>
  /\ other_scopes = <<>>
  /\ bucket = <<>>

PairSpec == PairInit /\ [][Next]_vars

\* ---- one process serving two actors ---------------------------------------
\* initialize_session_storage binds the module's SESSION_STORAGE to an
\* actor when that actor's agent is created; the tools take no actor and
\* use whatever the global is bound to.  Each actor's agent is created
\* once and then makes one tool call; `calls` keeps, per actor, whether
\* its agent exists ("none", then "idle") and what its call returned.

Actors == {"alice", "bob"}

\* the events the memory holds under actor_id
ScopeOf(actor_id) ==
  IF SESSION_STORAGE = <<actor_id>> THEN log
  ELSE IF actor_id \in DOMAIN other_scopes THEN other_scopes[actor_id]
  ELSE <<>>

ActorInit ==
  /\ log = <<>>
  /\ files = <<>>
  /\ now = 0
  /\ result = NoResult
  /\ io = NoIo
  /\ run_start = 0
  /\ calls = [a \in Actors |-> [NoCall EXCEPT !.pc = "none"]]
  /\ SESSION_STORAGE = <<>>
  /\ other_scopes = [a \in Actors |-> <<>>]
  /\ bucket = <<>>

\* initialize_session_storage(memory_id, memory_client, actor_id): the
\* global is replaced by a storage for actor_id, whose reads and appends
\* go to the events under that actor_id
InitializeSessionStorage(actor_id) ==
  /\ calls[actor_id].pc = "none"
  /\ SESSION_STORAGE' = <<actor_id>>
  /\ log' = ScopeOf(actor_id)
  /\ other_scopes' = [a \in Actors |->
                        IF a = actor_id THEN <<>> ELSE ScopeOf(a)]
  /\ calls' = [calls EXCEPT ![actor_id] = NoCall]
  /\ UNCHANGED <<files, now, result, io, run_start, bucket>>

\* a tool call made by the agent of actor_id has the outcome outcome
ActorStep(actor_id, t, outcome) ==
  /\ calls[actor_id].pc = "idle"
  /\ \E out \in {outcome} :
       /\ log' = out.log
       /\ files' = out.files
       /\ now' = t
       /\ result' = out.result
       /\ io' = out.io
       /\ calls' = [calls EXCEPT ![actor_id] =
                      [@ EXCEPT !.pc = "done", !.result = out.result,
                                !.io = out.io]]
  /\ UNCHANGED <<run_start, SESSION_STORAGE, other_scopes, bucket>>

ActorCreateNewSession(actor_id) ==
  \E t \in Times, doc_type \in DocTypes, course_code \in CourseCodes,
     title \in Titles, ok \in BOOLEAN :
    ActorStep(actor_id, t,
              create_new_session(log, files, t, doc_type, course_code,
                                 title, ok))

ActorUpdateSessionField(actor_id) ==
  \E t \in Times, session_id \in SessionArgs, fv \in FieldInputs,
     ok \in BOOLEAN :
    \E order \in OrdersFor(session_id) :
      ActorStep(actor_id, t,
                update_session_field(log, files, t, session_id, fv[1],
                                     fv[2], ok, order))

ActorDeleteSession(actor_id) ==
  \E t \in Times, session_id \in SessionArgs, delete_files \in BOOLEAN,
     ok \in BOOLEAN :
    \E order \in OrdersFor(session_id), rm \in RmOutcomes(delete_files) :
      ActorStep(actor_id, t,
                delete_session(log, files, t, session_id, delete_files, rm,
                               ok, order))

ActorNext ==
  \E actor_id \in Actors :
    \/ InitializeSessionStorage(actor_id)
    \/ ActorCreateNewSession(actor_id)
    \/ ActorUpdateSessionField(actor_id)
    \/ ActorDeleteSession(actor_id)

ActorSpec == ActorInit /\ [][ActorNext]_vars

\* ---- a memory that holds more records than one retrieval returns ----------
\* get_session asks for k=100 turns and get_all_sessions for top_k=100
\* memories.  The model keeps the limit as the bound TopK: what matters is
\* whether the memory holds more records than the limit, and here
\* records are appended until it holds one more.  No log of the other
\* specifications is longer than TopK, so the limit does not bind there.

\* the k and top_k the store asks for (100 in the code)
TopK == 6

\* the number of records appended
MaxRecords == 7

RECURSIVE Choose(_, _)
\* the sets of e of the numbers 1..n
Choose(n, e) ==
  IF e = 0 THEN {{}}
  ELSE IF n < e THEN {}
  ELSE Choose(n - 1, e) \cup {D \cup {n} : D \in Choose(n - 1, e - 1)}

\* l without the records at the positions in dropped
Without(l, dropped) ==
  LET kept == SelectSeq([i \in 1..Len(l) |-> i],
                        LAMBDA i : i \notin dropped)
  IN [n \in 1..Len(kept) |-> l[kept[n]]]

\* what retrieve_memories(top_k) may look at: all the records of the
\* namespace when there are no more than top_k, else any top_k of them
\* (the ranking is the memory's)
TopKWindows(l) ==
  IF Len(l) <= TopK THEN {l}
  ELSE {Without(l, dropped) : dropped \in Choose(Len(l), Len(l) - TopK)}

\* what get_last_k_turns(k) may look at: all the events of the session
\* (they form one turn), or its newest k (the memory lists no more)
LastKWindows(l, session_id) ==
  LET mine == {i \in 1..Len(l) : l[i].session_id = session_id}
      old == {i \in mine : Cardinality({j \in mine : j > i}) >= TopK}
  IN {l, Without(l, old)}

WindowInit ==
  /\ log = <<>>
  /\ files = <<>>
  /\ now = 0
  /\ result = NoResult
  /\ io = NoIo
  /\ run_start = 0
  /\ calls = <<>>
  /\ SESSION_STORAGE = <<DefaultActor>>
  /\ other_scopes = <<>>
  /\ bucket = <<>>

\* create_session for a new session, stamped with the count of records
WindowCreateSession ==
  /\ Len(log) < MaxRecords
  /\ \E session_id \in {<<"CS101", "lecture", Len(log)>>} :
       \E out \in {create_session(log,
                     SessionState(session_id, <<>>, Len(log)), TRUE)} :
         /\ log' = out.log
         /\ now' = Len(log)
         /\ StoreReturned("create_session", session_id, out.ret, <<>>)

\* update_session for the oldest session
WindowUpdateSession ==
  /\ Len(log) >= 1
  /\ Len(log) < MaxRecords
  /\ \E session_id \in {log[1].session_id} :
       \E out \in {update_session(log, session_id,
                     SessionState(session_id, <<>>, now), Len(log), TRUE)} :
         /\ log' = out.log
         /\ now' = Len(log)
         /\ StoreReturned("update_session", session_id, out.ret, <<>>)

\* delete_session for the oldest session
WindowDeleteSession ==
  /\ Len(log) >= 1
  /\ Len(log) < MaxRecords
  /\ \E session_id \in {log[1].session_id} :
       \E out \in {storage_delete_session(log, session_id, Len(log), TRUE)} :
         /\ log' = out.log
         /\ now' = Len(log)
         /\ StoreReturned("delete_session", session_id, out.ret, <<>>)

\* get_session for the oldest or the newest session
WindowGetSession ==
  /\ log # <<>>
  /\ \E session_id \in {log[1].session_id, log[Len(log)].session_id} :
       \E seen \in LastKWindows(log, session_id) :
         \E found \in {get_session(seen, session_id)} :
           /\ StoreReturned("get_session", session_id, found # <<>>,
                            IF found = <<>> THEN <<>>
                            ELSE found[1].session_id)
           /\ UNCHANGED <<log, now>>

WindowGetAllSessions ==
  \E order \in Orders, seen \in TopKWindows(log) :
    \E all \in {get_all_sessions(seen, order)} :
      /\ StoreReturned("get_all_sessions", <<>>, all # <<>>, <<>>)
      /\ UNCHANGED <<log, now>>

WindowNext ==
  \/ WindowCreateSession
  \/ WindowUpdateSession
  \/ WindowDeleteSession
  \/ WindowGetSession
  \/ WindowGetAllSessions

WindowSpec == WindowInit /\ [][WindowNext]_vars

\* ---- the session state of echo_prepare_agent, one caller ----------------
\* the SessionManager's session
PrepareSession == "s1"

DocIds == {"d1", "d2"}

\* the updates update_state is called with: set_current_document,
\* set_user_preferences, and one naming two keys
UpdateInputs ==
  {[current_document |-> d] : d \in DocIds}
    \cup {[preferences |-> "dark"],
          [current_document |-> "d1", preferences |-> "light"]}

SessionInit ==
  /\ log = <<>>
  /\ files = <<>>
  /\ now = 0
  /\ result = NoResult
  /\ io = NoIo
  /\ run_start = 0
  /\ calls = <<>>
  /\ SESSION_STORAGE = <<DefaultActor>>
  /\ other_scopes = <<>>
  /\ bucket = <<>>

\* a method of the SessionManager or the DocumentStorageManager has
\* returned at clock reading t
BucketReturned(op, t, out) ==
  /\ bucket' = out.bucket
  /\ result' = [NoResult EXCEPT !.op = op, !.success = out.ret]
  /\ now' = t
  /\ UNCHANGED <<log, files, io, run_start, calls, SESSION_STORAGE,
                 other_scopes>>

UpdateState ==
  \E t \in Times, updates \in UpdateInputs, get \in GetOutcomes,
     put_ok \in BOOLEAN :
    BucketReturned("update_state", t,
      update_state(bucket, PrepareSession, updates, t, get, put_ok))

AddDocumentToHistory ==
  \E t \in Times, doc_id \in DocIds, title \in {"Quiz 1", "Quiz 2"},
     get \in GetOutcomes, put_ok \in BOOLEAN :
    BucketReturned("add_document_to_history", t,
      add_document_to_history(bucket, PrepareSession, doc_id, "quiz",
                              title, t, get, put_ok))

SessionNext == UpdateState \/ AddDocumentToHistory

SessionSpec == SessionInit /\ [][SessionNext]_vars

\* ---- the documents of echo_prepare_agent, one caller --------------------
Contents == {<<"v1">>, <<"v2">>}

\* the metadata and metadata_updates arguments: None or a dict
MetadataInputs == {<<>>, [topic |-> "loops"], [topic |-> "trees"]}

SaveDocument ==
  \E t \in Times, doc_id \in DocIds, content \in Contents,
     doc_type \in {"quiz", "syllabus"}, metadata \in MetadataInputs,
     put_md, put_meta \in BOOLEAN :
    BucketReturned("save_document", t,
      save_document(bucket, PrepareSession, doc_id, content, doc_type,
                    metadata, t, put_md, put_meta))

UpdateDocument ==
  \E t \in Times, doc_id \in DocIds, content \in Contents,
     metadata_updates \in MetadataInputs, get_md, get_meta \in GetOutcomes,
     put_md, put_meta \in BOOLEAN :
    BucketReturned("update_document", t,
      update_document(bucket, PrepareSession, doc_id, content,
                      metadata_updates, t, get_md, get_meta, put_md,
                      put_meta))

DocumentNext == SaveDocument \/ UpdateDocument

DocumentSpec == SessionInit /\ [][DocumentNext]_vars

\* ---- the stream methods of the three agents -----------------------------
Agents == {"EchoPrepareAgent", "EchoInkAgent", "HostAgent"}

\* how many events the model stream of one run yields at most
MaxEvents == 2

\* an event of agent.stream_async: the keys among "data", "complete" and
\* "tool_call" it has, and its event["data"] (a text, possibly empty)
ModelEvents ==
  {[keys |-> ks, data |-> d] :
     ks \in SUBSET {"data", "complete", "tool_call"},
     d \in {<<>>, <<"chunk">>}}
    \ {e \in [keys : SUBSET {"data", "complete", "tool_call"},
              data : {<<"chunk">>}] : "data" \notin e.keys}

RECURSIVE ModelStreams(_)
\* the model streams of n events
ModelStreams(n) ==
  IF n = 0 THEN {<<>>}
  ELSE {Append(s, e) : s \in ModelStreams(n - 1), e \in ModelEvents}

\* an event a stream method yields
Yield(complete, input, content) ==
  [is_task_complete |-> complete, require_user_input |-> input,
   content |-> content]

\* the body of the async for loop: what the method yields for one event
\* (<<>> when it yields nothing), the response after it, and whether it
\* breaks out of the loop
OnEvent(agent, event, response) ==
  IF "data" \in event.keys
  THEN [yielded |-> <<Yield(agent # "EchoPrepareAgent"
                              /\ "complete" \in event.keys,
                            FALSE, event.data)>>,
        response |-> IF agent = "HostAgent" THEN response
                     ELSE response \o event.data,
        break |-> FALSE]
  ELSE IF agent = "EchoPrepareAgent" /\ "complete" \in event.keys
  THEN [yielded |-> <<Yield(TRUE, FALSE, <<>>)>>, response |-> response,
        break |-> TRUE]
  ELSE IF agent = "EchoInkAgent" /\ "tool_call" \in event.keys
  THEN [yielded |-> <<Yield(FALSE, FALSE, <<"Using tool">>)>>,
        response |-> response, break |-> FALSE]
  ELSE [yielded |-> <<>>, response |-> response, break |-> FALSE]

\* the except clause: the error event
OnException == <<Yield(FALSE, TRUE, <<"Error processing request">>)>>

\* the finally clause: the completion event, which EchoPrepareAgent
\* yields only with a non-empty response
OnFinally(agent, response) ==
  IF agent = "EchoPrepareAgent" /\ response = <<>> THEN <<>>
  ELSE <<Yield(TRUE, FALSE,
               IF agent = "EchoInkAgent" THEN response ELSE <<>>)>>

\* one run of a stream method, read to its end by the caller: the events
\* the model stream still has, whether it raises after them, the response
\* collected and the events yielded so far
StreamInit ==
  /\ \E agent \in Agents, n \in 0..MaxEvents, raises \in BOOLEAN :
       \E pending \in ModelStreams(n) :
         calls = [agent |-> agent, pc |-> "loop", pending |-> pending,
                  raises |-> raises, response |-> <<>>, yielded |-> <<>>]
  /\ log = <<>>
  /\ files = <<>>
  /\ now = 0
  /\ result = NoResult
  /\ io = NoIo
  /\ run_start = 0
  /\ SESSION_STORAGE = <<DefaultActor>>
  /\ other_scopes = <<>>
  /\ bucket = <<>>

StreamFrame ==
  UNCHANGED <<log, files, now, result, io, run_start, SESSION_STORAGE,
              other_scopes, bucket>>

\* the model stream hands over its next event
StreamEvent ==
  /\ calls.pc = "loop"
  /\ calls.pending # <<>>
  /\ LET on == OnEvent(calls.agent, Head(calls.pending), calls.response)
     IN calls' = [calls EXCEPT !.pending = Tail(calls.pending),
                               !.response = on.response,
                               !.yielded = calls.yielded \o on.yielded,
                               !.pc = IF on.break THEN "finally"
                                      ELSE "loop"]
  /\ StreamFrame

\* the model stream ends
StreamEnd ==
  /\ calls.pc = "loop"
  /\ calls.pending = <<>>
  /\ ~calls.raises
  /\ calls' = [calls EXCEPT !.pc = "finally"]
  /\ StreamFrame

\* the model stream raises
StreamRaise ==
  /\ calls.pc = "loop"
  /\ calls.pending = <<>>
  /\ calls.raises
  /\ calls' = [calls EXCEPT !.yielded = calls.yielded \o OnException,
                            !.pc = "finally"]
  /\ StreamFrame

\* the finally clause runs and the generator is exhausted
StreamFinally ==
  /\ calls.pc = "finally"
  /\ calls' = [calls EXCEPT
                 !.yielded = calls.yielded
                               \o OnFinally(calls.agent, calls.response),
                 !.pc = "done"]
  /\ StreamFrame

StreamNext == StreamEvent \/ StreamEnd \/ StreamRaise \/ StreamFinally

\* the caller reads the generator to its end and the model stream is
\* finite: a step that can be taken is taken
StreamSpec == StreamInit /\ [][StreamNext]_vars /\ WF_vars(StreamNext)

\* ---- properties -----------------------------------------------------------
\* the session ids the log holds events under
SessionIds(l) == {l[i].session_id : i \in 1..Len(l)}

\* where the log holds the snapshots of a session
Snapshots(l, session_id) ==
  {i \in 1..Len(l) : l[i].session_id = session_id /\ l[i].tag = Marker}

\* where the log holds the deletion markers of a session
Tombstones(l, session_id) ==
  {i \in 1..Len(l) :
     l[i].session_id = session_id /\ l[i].tag = DeletedMarker}

\* the newest snapshot of a session that has one: the maximal
\* last_updated, the last appended among equals
Newest(l, session_id) ==
  CHOOSE i \in Snapshots(l, session_id) :
    \A j \in Snapshots(l, session_id) :
      \/ l[j].payload.last_updated < l[i].payload.last_updated
      \/ /\ l[j].payload.last_updated = l[i].payload.last_updated
         /\ j <= i

\* a session counts as deleted when one of its deletion markers is stamped
\* no earlier than its newest snapshot
SpecDeleted(l, session_id) ==
  \E d \in Tombstones(l, session_id) :
    \/ Snapshots(l, session_id) = {}
    \/ l[d].payload.deleted_at
         >= l[Newest(l, session_id)].payload.last_updated

\* the required fields a session has no value for, in required order
MissingRequired(session_data) ==
  SelectSeq(session_data.required_fields,
            LAMBDA k : k \notin DOMAIN session_data.fields)

\* the fields a session may hold
TemplateFields(session_data) ==
  Range(session_data.required_fields)
    \cup Range(session_data.optional_fields)

\* the tools that start from an existing session
SessionTools ==
  {"update_session_field", "regenerate_document", "finalize_session",
   "delete_session"}

\* C1: for a session with snapshots and no deletion marker, get_session
\* returns the snapshot with the maximal last_updated, the last appended
\* among equals, with exactly its field values.
C1_LastWriteWins ==
  \A sid \in SessionIds(log) :
    (Snapshots(log, sid) # {} /\ Tombstones(log, sid) = {}) =>
      get_session(log, sid) = <<log[Newest(log, sid)].payload>>

\* a session with an older snapshot S1 and a later stamped S2 of other
\* field values, which get_session answers with
C1_TwoSnapshotsRead ==
  \E sid \in SessionIds(log) :
    /\ Tombstones(log, sid) = {}
    /\ \E i, j \in Snapshots(log, sid) :
         /\ i < j
         /\ j = Newest(log, sid)
         /\ log[i].payload.last_updated < log[j].payload.last_updated
         /\ log[i].payload.fields # log[j].payload.fields
         /\ get_session(log, sid) # <<>>
         /\ get_session(log, sid)[1].fields = log[j].payload.fields

\* C2: get_session reports not-found for every session that has a
\* deletion marker stamped no earlier than its newest snapshot.
C2_TombstonePrecedence ==
  \A sid \in SessionIds(log) :
    SpecDeleted(log, sid) => get_session(log, sid) = <<>>

\* C3: when update_session_field reports success for a session named by
\* its id and never deleted, the session read next holds the new value,
\* keeps every value it held before, and the completion status returned
\* counts the required fields set so far.
C3_FieldAccumulation ==
  [][(/\ result'.op = "update_session_field"
      /\ result'.success
      /\ io'.named # Latest
      /\ Tombstones(log', io'.named) = {})
     => LET before == get_session(log, io'.named)
            after == get_session(log', io'.named)
            status == result'.completion_status[1]
        IN /\ before # <<>>
           /\ after # <<>>
           /\ after[1].fields =
                (result'.field_name :> result'.field_value)
                  @@ before[1].fields
           /\ status.required_progress =
                <<Cardinality(Range(after[1].required_fields)
                                \cap DOMAIN after[1].fields),
                  Len(after[1].required_fields)>>
           /\ status.required_complete =
                (Range(after[1].required_fields)
                   \subseteq DOMAIN after[1].fields)]_vars

\* C4: once the log holds a deletion marker of a session (delete_session
\* reported success for it), every update_session_field,
\* regenerate_document, finalize_session or delete_session call that
\* names the session, or resolves to it through "latest", returns a
\* not-found error and appends nothing.
C4_DeletedIsAbsorbing ==
  [][(/\ result'.op \in SessionTools
      /\ \E sid \in SessionIds(log) :
           /\ Tombstones(log, sid) # {}
           /\ \/ io'.named = sid
              \/ io'.named = Latest /\ io'.session_id = sid)
     => /\ ~result'.success
        /\ result'.error \in {"Session not found", "No sessions available"}
        /\ log' = log]_vars

\* C5: with the memories retrieved in the order they were appended,
\* get_all_sessions returns exactly the sessions that are not deleted,
\* each in the state get_session returns for it.
C5_AllSessionsByReadRule ==
  LET all == get_all_sessions(log, "asc") IN
  /\ {all[i].session_id : i \in 1..Len(all)}
       = {sid \in SessionIds(log) :
            Snapshots(log, sid) # {} /\ ~SpecDeleted(log, sid)}
  /\ \A i \in 1..Len(all) :
       get_session(log, all[i].session_id) = <<all[i]>>

\* C6: the keys of fields of every snapshot in the log are among the
\* required and optional fields of the session.
C6_FieldKeysWithinTemplate ==
  \A i \in 1..Len(log) :
    log[i].tag = Marker =>
      DOMAIN log[i].payload.fields \subseteq TemplateFields(log[i].payload)

\* C7: finalize_session on a session that misses a required field returns
\* an error whose missing_fields are exactly the missing required fields
\* in required order, appends nothing and writes no file.
C7_FinalizationGating ==
  [][(result'.op = "finalize_session")
     => LET found == Resolve(log, io'.named, io'.order) IN
        (found # <<>> /\ MissingRequired(found[1]) # <<>>)
        => /\ ~result'.success
           /\ result'.error # ""
           /\ result'.missing_fields = MissingRequired(found[1])
           /\ log' = log
           /\ files' = files
           /\ io'.wrote = {}
           /\ io'.store_ret = "none"]_vars

\* finalize_session has just refused a stored session that misses a
\* required field
C7_RefusedIncomplete ==
  /\ result.op = "finalize_session"
  /\ ~result.success
  /\ result.missing_fields # <<>>
  /\ get_session(log, io.session_id) # <<>>
  /\ MissingRequired(get_session(log, io.session_id)[1]) # <<>>

\* C8: update_session_field with a field name outside the required and
\* optional fields of the session returns an error that lists the valid
\* field names, appends nothing (fields and last_updated stay as they
\* were) and writes no file.
C8_UnknownFieldRejected ==
  [][(result'.op = "update_session_field")
     => LET found == Resolve(log, io'.named, io'.order) IN
        (found # <<>> /\ io'.field_name \notin TemplateFields(found[1]))
        => /\ ~result'.success
           /\ result'.error # ""
           /\ result'.available_fields
                = found[1].required_fields \o found[1].optional_fields
           /\ log' = log
           /\ Resolve(log', io'.named, io'.order) = found
           /\ files' = files
           /\ io'.wrote = {}]_vars

\* update_session_field has just refused a field name that the stored
\* session does not have
C8_RefusedUnknownField ==
  /\ result.op = "update_session_field"
  /\ ~result.success
  /\ io.field_name = "nonexistent_field"
  /\ result.available_fields # <<>>
  /\ get_session(log, io.session_id) # <<>>
  /\ io.field_name \notin TemplateFields(get_session(log, io.session_id)[1])

\* C9: a tool whose store call returned False does not report success.
C9_StoreErrorsSurface ==
  io.store_ret = "False" => ~result.success

\* C10: when the PDF derivation fails after finalize_session wrote the
\* final document, the call returns an error, the stored pdf_path stays
\* as it was and the stored document_path is the final document written.
C10_PartialFinalizeFailure ==
  [][(result'.op = "finalize_session" /\ io'.pdf = "raised")
     => LET before == get_session(log, io'.session_id)
            after == get_session(log', io'.session_id)
        IN /\ ~result'.success
           /\ after # <<>>
           /\ after[1].pdf_path = before[1].pdf_path
           /\ after[1].document_path \in io'.wrote]_vars

\* a session is readable when it has a snapshot and does not count as
\* deleted
Readable(l, session_id) ==
  Snapshots(l, session_id) # {} /\ ~SpecDeleted(l, session_id)

\* C11: the store's update_session returns False and appends nothing when
\* the id has no snapshot or counts as deleted.
C11_UpdateNeedsLiveSession ==
  [][(result'.op = "update_session" /\ ~Readable(log, io'.named))
     => (~result'.success /\ log' = log)]_vars

\* C12: the store's create_session returns False and appends nothing when
\* the id already has a snapshot that is not deleted; a create_session
\* that returns True appended exactly one snapshot of the id.
C12_CreateRejectsDuplicate ==
  [][(result'.op = "create_session")
     => /\ Readable(log, io'.named) => (~result'.success /\ log' = log)
        /\ result'.success
             => /\ Len(log') = Len(log) + 1
                /\ SubSeq(log', 1, Len(log)) = log
                /\ log'[Len(log')].tag = Marker
                /\ log'[Len(log')].session_id = io'.named]_vars

\* C13: a successful create_new_session returns a session id that no
\* earlier create_new_session returned (every id in the log was returned
\* by one).
C13_SessionIdsNeverReused ==
  [][(result'.op = "create_new_session" /\ result'.success)
     => result'.session_id \notin SessionIds(log)]_vars

\* C14: the snapshot update_session appends carries a last_updated
\* greater than that of every snapshot the log already held for the id.
C14_LastUpdatedAdvances ==
  [][(result'.op = "update_session" /\ log' # log)
     => \A i \in Snapshots(log, io'.named) :
          log[i].payload.last_updated
            < log'[Len(log')].payload.last_updated]_vars

\* C16: the state get_session returns for an id is one of the states
\* written under the id, equal in every key and field value, and so is
\* every state get_all_sessions returns.
C16_SerializationRoundTrip ==
  /\ \A sid \in SessionIds(log) :
       get_session(log, sid) # <<>> =>
         \E i \in Snapshots(log, sid) :
           get_session(log, sid)[1] = log[i].payload
  /\ \A order \in Orders :
       LET all == get_all_sessions(log, order) IN
       \A k \in 1..Len(all) :
         \E i \in Snapshots(log, all[k].session_id) :
           all[k] = log[i].payload

\* C17: get_latest_session returns None when get_all_sessions lists
\* nothing; otherwise a listed session of maximal last_updated, the one
\* listed last among those of maximal last_updated.
C17_LatestIsLastMaximal ==
  \A order \in Orders :
    LET all == get_all_sessions(log, order)
        latest == get_latest_session(log, order)
    IN IF all = <<>> THEN latest = <<>>
       ELSE /\ latest # <<>>
            /\ \E i \in 1..Len(all) :
                 /\ all[i] = latest[1]
                 /\ \A j \in 1..Len(all) :
                      \/ all[j].last_updated < all[i].last_updated
                      \/ /\ all[j].last_updated = all[i].last_updated
                         /\ j <= i

\* how many of its optional fields a session has a value for
OptionalDone(session_data) ==
  Cardinality(Range(session_data.optional_fields)
                \cap DOMAIN session_data.fields)

\* C18: the snapshot a successful finalize_session appends differs from
\* the session it read in document_path, pdf_path and last_updated only:
\* fields is the same mapping, and so are the required and optional
\* progress.
C18_FinalizeKeepsFields ==
  [][(result'.op = "finalize_session" /\ result'.success /\ log' # log)
     => LET read == Resolve(log, io'.named, io'.order)[1]
            appended == log'[Len(log')].payload
        IN /\ appended.fields = read.fields
           /\ MissingRequired(appended) = MissingRequired(read)
           /\ OptionalDone(appended) = OptionalDone(read)
           /\ appended =
                [read EXCEPT !.document_path = result'.md_file_path,
                             !.pdf_path = result'.pdf_file_path,
                             !.last_updated = appended.last_updated]]_vars

\* C19: when finalize_session succeeds on a session and is called again
\* right away on the same session, the PDF derivation working both
\* times, the second call succeeds too and returns the same final_content
\* and the same document and PDF locations.  (The retrieval may answer
\* the second call in another order only if the first call appended.)
C19_FinalizeIdempotent ==
  \A session_id \in SessionArgs, ok1 \in BOOLEAN, ok2 \in BOOLEAN :
    \A order1 \in OrdersFor(session_id) :
      LET first == finalize_session(log, files, now, session_id, ok1, TRUE,
                                    order1)
      IN \A order2 \in IF first.log = log THEN {order1}
                        ELSE OrdersFor(session_id) :
           LET second == finalize_session(first.log, first.files, now,
                                          session_id, ok2, TRUE, order2)
           IN (/\ first.result.success
               /\ second.io.session_id = first.io.session_id)
              => /\ second.result.success
                 /\ second.result.final_content
                      = first.result.final_content
                 /\ second.result.md_file_path
                      = first.result.md_file_path
                 /\ second.result.pdf_file_path
                      = first.result.pdf_file_path

Raced(c, d) ==
  /\ calls[c].pc = "done" /\ calls[d].pc = "done"
  /\ calls[c].found # <<>> /\ calls[d].found # <<>>
  /\ calls[c].found[1].session_id = calls[d].found[1].session_id
  /\ calls[c].field_name # calls[d].field_name
  /\ calls[c].read_len = calls[d].read_len
  /\ calls[c].wrote_at = calls[c].read_len + 1
  /\ calls[d].wrote_at = calls[c].read_len + 2

\* C15: when two update_session_field calls on one session with
\* different field names both look the session up before either appends,
\* both report success, the log holds the record of each with its value,
\* and the session read afterwards is what the second writer read plus
\* the second writer's field: the first writer's value is not in it
\* unless the second writer had read it.
C15_LostUpdateRace ==
  \A c \in Callers, d \in Callers :
    Raced(c, d) =>
      LET sid == calls[d].found[1].session_id
          after == get_session(log, sid)
      IN /\ calls[c].result.success /\ calls[d].result.success
         /\ log[calls[c].wrote_at].payload.fields[calls[c].field_name]
              = calls[c].field_value
         /\ log[calls[d].wrote_at].payload.fields[calls[d].field_name]
              = calls[d].field_value
         /\ after # <<>>
         /\ after[1].fields
              = (calls[d].field_name :> calls[d].field_value)
                  @@ calls[d].found[1].fields

\* two callers raced and the update of the first is lost: the session
\* read afterwards has the second writer's value and not the first's
C15_UpdateLost ==
  \E c \in Callers, d \in Callers :
    /\ Raced(c, d)
    /\ LET after == get_session(log, calls[d].found[1].session_id)[1].fields
       IN /\ after[calls[d].field_name] = calls[d].field_value
          /\ \/ calls[c].field_name \notin DOMAIN after
             \/ after[calls[c].field_name] # calls[c].field_value

\* C21: regenerate_document appends nothing, so every session reads
\* afterwards as it read before, and it changes no file but the document
\* of the session it resolved.
C21_RegenerateKeepsSession ==
  [][(result'.op = "regenerate_document")
     => /\ log' = log
        /\ \A sid \in SessionIds(log) :
             get_session(log', sid) = get_session(log, sid)
        /\ io'.store_ret = "none"
        /\ LET found == Resolve(log, io'.named, io'.order) IN
           IF found = <<>> THEN files' = files /\ ~result'.success
           ELSE /\ io'.wrote \subseteq {found[1].document_path}
                /\ DOMAIN files' = DOMAIN files \cup io'.wrote
                /\ \A p \in DOMAIN files :
                     p # found[1].document_path => files'[p] = files[p]]_vars

\* regenerate_document has just rewritten the document of a stored
\* session that has a deletion marker neither before nor after
C21_Regenerated ==
  /\ result.op = "regenerate_document"
  /\ result.success
  /\ io.wrote = {result.file_path}
  /\ get_session(log, io.session_id) # <<>>
  /\ get_session(log, io.session_id)[1].document_path = result.file_path
  /\ Tombstones(log, io.session_id) = {}

\* the placeholders of the session's template that name an optional field
\* the session has not set
AbsentOptional(session_data) ==
  Range(TEMPLATES[session_data.doc_type].optional_fields)
    \ DOMAIN session_data.fields

\* C22: for a session with all its required fields set, the final
\* rendering (populate_template) is the text of the draft rendering
\* (_regenerate_document_file_from_data), and in it every optional field
\* the session has not set reads "[<Title> - TO BE COMPLETED]".
C22_OneRenderer ==
  LET session_data == TemplateSession
      structure == TEMPLATES[session_data.doc_type].structure
  IN ( /\ result.op = "populate_template"
       /\ session_data.document_path \in DOMAIN files
       /\ Range(session_data.required_fields)
            \subseteq DOMAIN session_data.fields )
     => /\ result.success
        /\ result.final_content = files[session_data.document_path]
        /\ \A i \in 1..Len(structure) :
             structure[i] \in AbsentOptional(session_data)
               => result.final_content[i] = ToBeCompleted(structure[i])

\* m lists exactly the members of required that are not in keys, once
\* each, in the order of required
OrderedRest(m, required, keys) ==
  /\ Range(m) = Range(required) \ keys
  /\ \A i, j \in 1..Len(m) : i < j =>
       \E a, b \in 1..Len(required) :
         a < b /\ required[a] = m[i] /\ required[b] = m[j]

\* C23: validate_template_fields and _get_missing_required_fields return
\* the required fields that are no key of the field mapping, in the
\* template's order, and the session is reported valid (complete) exactly
\* when that list is empty.
C23_ValidatorCorrect ==
  LET session_data == TemplateSession
      required == TEMPLATES[session_data.doc_type].required_fields
      keys == DOMAIN session_data.fields
  IN /\ result.op \in {"validate_template_fields",
                       "_get_missing_required_fields"}
          => OrderedRest(result.missing_fields, required, keys)
     /\ result.op = "validate_template_fields"
          => (result.success <=> Range(required) \subseteq keys)
     /\ result.op = "_get_completion_status"
          => /\ OrderedRest(result.completion_status[1].missing_required,
                            required, keys)
             /\ result.completion_status[1].required_complete
                  <=> Range(required) \subseteq keys

\* the validator has reported two missing fields around one that is set
C23_MissingAroundSet ==
  /\ result.op = "validate_template_fields"
  /\ ~result.success
  /\ result.missing_fields = <<"lecture_number", "main_content">>
  /\ "lecture_date" \in DOMAIN TemplateSession.fields

\* C24: the completion status is the validator's list and two counts:
\* required_complete says the list is empty, the required progress is
\* |required| - |missing| of |required|, the optional progress is the
\* number of optional fields that are keys of fields of |optional|; a
\* session with the same lists and the same keys has the same status.
C24_StatusFromValidator ==
  LET session_data == TemplateSession
      required == session_data.required_fields
      optional == session_data.optional_fields
      missing == validate_template_fields(session_data.doc_type,
                                          session_data.fields)[2]
      other == [session_data EXCEPT
                  !.fields = [k \in DOMAIN @ |-> Text("other")],
                  !.title = "Other", !.course_code = "CS999",
                  !.doc_type = "memo", !.last_updated = @ + 1,
                  !.document_path = NoPath]
  IN result.op = "_get_completion_status"
     => /\ result.completion_status[1] =
             [required_complete |-> missing = <<>>,
              required_progress |->
                <<Len(required) - Len(missing), Len(required)>>,
              optional_progress |->
                <<Cardinality(Range(optional)
                                \cap DOMAIN session_data.fields),
                  Len(optional)>>,
              missing_required |-> missing]
        /\ _get_completion_status(other) = result.completion_status[1]

\* a status has been computed for a session with some, not all, required
\* fields and one optional field set
C24_PartialStatus ==
  /\ result.op = "_get_completion_status"
  /\ result.completion_status[1].required_progress = <<2, 3>>
  /\ result.completion_status[1].optional_progress[1] = 1
  /\ ~result.completion_status[1].required_complete

\* C25: in every template of TEMPLATES (a session of every one of
\* them is a start state) no field is both required and optional, and every placeholder of the structure is a required field,
\* an optional field, course_code or title.
C25_TemplateInvariant ==
  \A doc_type \in DOMAIN TEMPLATES :
    doc_type = TemplateSession.doc_type =>
      LET template == TEMPLATES[doc_type] IN
      /\ Range(template.required_fields)
           \cap Range(template.optional_fields) = {}
      /\ Range(template.structure) \subseteq
           Range(template.required_fields)
             \cup Range(template.optional_fields)
             \cup {"course_code", "title"}

\* both renderings of a session have given every placeholder of the
\* structure a value
C25_EveryPlaceholderFilled ==
  /\ result.op = "populate_template"
  /\ result.success
  /\ Len(result.final_content)
       = Len(TEMPLATES[TemplateSession.doc_type].structure)
  /\ TemplateSession.document_path \in DOMAIN files
  /\ Len(files[TemplateSession.document_path])
       = Len(TEMPLATES[TemplateSession.doc_type].structure)

\* C26: called in any state a tool may be called in, create_new_session
\* with an unregistered doc_type returns the
\* unknown-type error, which is not the error of a store that refused the
\* session, and appends nothing; with a registered doc_type (and a store
\* that accepts) it appends exactly one snapshot, with empty fields, and
\* returns its session_id with the template's required and optional
\* lists.
C26_CreateErrors ==
  Idle =>
  \A t \in Times, doc_type \in DocTypes, course_code \in CourseCodes,
     title \in Titles, ok \in BOOLEAN :
    LET out == create_new_session(log, files, t, doc_type, course_code,
                                  title, ok)
        refused == create_new_session(log, files, t, "lecture", course_code,
                                      title, FALSE)
        appended == get_session(<<out.log[Len(out.log)]>>,
                                out.result.session_id)
    IN IF doc_type \notin DOMAIN TEMPLATES
       THEN /\ ~out.result.success
            /\ out.result.error = "Unknown document type"
            /\ out.result.error # refused.result.error
            /\ out.log = log
            /\ out.files = files
       ELSE IF ok
       THEN /\ out.result.success
            /\ Len(out.log) = Len(log) + 1
            /\ SubSeq(out.log, 1, Len(log)) = log
            /\ appended # <<>>
            /\ appended[1].fields = <<>>
            /\ appended[1].doc_type = doc_type
            /\ out.result.required_fields
                 = TEMPLATES[doc_type].required_fields
            /\ out.result.optional_fields
                 = TEMPLATES[doc_type].optional_fields
       ELSE /\ ~out.result.success
            /\ out.result.error = "Failed to store session in memory"
            /\ out.log = log

\* create_new_session has refused an unregistered type in a run that
\* holds a session, and has not touched the log
C26_UnknownTypeRefused ==
  /\ result.op = "create_new_session"
  /\ result.error = "Unknown document type"
  /\ result.session_id = <<>>
  /\ Len(log) = run_start
  /\ log # <<>>

C28_ScopedToSession ==
  [][\A A \in SessionIds(log') \cup {NeverCreated} :
       ( \/ result'.op \in SessionTools /\ io'.named = A
         \/ result'.op = "create_new_session" /\ result'.session_id = A )
       => /\ Len(log') >= Len(log)
          /\ SubSeq(log', 1, Len(log)) = log
          /\ \A i \in (Len(log) + 1)..Len(log') : log'[i].session_id = A
          /\ \A B \in SessionIds(log') \ {A} :
               get_session(log', B) = get_session(log, B)]_vars

\* update_session_field, naming one of two stored sessions by its id, has
\* appended a snapshot under that id, and the other session still reads
C28_OtherSessionUntouched ==
  /\ result.op = "update_session_field"
  /\ result.success
  /\ io.named # Latest
  /\ Len(log) = run_start + 1
  /\ log[Len(log)].session_id = io.named
  /\ \E B \in SessionIds(log) \ {io.named} : get_session(log, B) # <<>>

\* the values a session is identified by
Identity(session_data) ==
  <<session_data.session_id, session_data.doc_type,
    session_data.course_code, session_data.title, session_data.created_at>>

\* C30: the snapshot update_session_field appends for a session carries
\* the session_id, doc_type, course_code, title and created_at of every
\* snapshot the log already holds for that session, the one
\* create_new_session appended among them; checked for a session
\* created, under either title, in any state a tool may be called in.
C30_IdentitySetOnce ==
  Idle =>
  \A t \in Times, title \in DOMAIN CleanTitle :
    LET made == create_new_session(log, files, t, "lecture", "CS101", title,
                                   TRUE)
        sid == made.result.session_id
        updated == update_session_field(made.log, made.files, t, sid,
                                        "lecture_number", Text("2"), TRUE,
                                        "asc")
        appended == updated.log[Len(updated.log)]
    IN /\ updated.result.success
       /\ appended.session_id = sid
       /\ \A i \in Snapshots(updated.log, sid) :
            Identity(updated.log[i].payload) = Identity(appended.payload)

\* C29: a tool call made by the agent of an actor, created with
\* initialize_session_storage for that actor, reads and appends under
\* that actor's id only: the events under every other actor's id stay as
\* they were, what it appends is under the actor's own id, and a session
\* the call resolved is one of the actor's own.
C29_ActorScoped ==
  [][\A actor_id \in Actors :
       (calls[actor_id].pc = "idle" /\ calls'[actor_id].pc = "done")
       => /\ \A other \in Actors \ {actor_id} :
               ScopeOf(other)' = ScopeOf(other)
          /\ calls'[actor_id].io.store_ret = "True"
               => Len(ScopeOf(actor_id)') = Len(ScopeOf(actor_id)) + 1
          /\ calls'[actor_id].io.session_id # <<>>
               => calls'[actor_id].io.session_id
                    \in SessionIds(ScopeOf(actor_id)')]_vars

\* C31: under every store method the log before is a prefix of the log
\* after; create_session, update_session and delete_session append exactly
\* one record when they return True (delete_session a deletion marker) and
\* none when they return False; get_session, get_all_sessions and
\* get_latest_session append none.
C31_AppendOnly ==
  [][/\ Len(log') >= Len(log)
     /\ SubSeq(log', 1, Len(log)) = log
     /\ result'.op \in {"create_session", "update_session", "delete_session"}
          => /\ result'.success
                  => /\ Len(log') = Len(log) + 1
                     /\ log'[Len(log')].session_id = io'.named
                     /\ log'[Len(log')].tag
                          = IF result'.op = "delete_session"
                            THEN DeletedMarker ELSE Marker
             /\ ~result'.success => log' = log
     /\ result'.op \in {"get_session", "get_all_sessions",
                        "get_latest_session"}
          => log' = log]_vars

\* delete_session has appended a deletion marker behind the snapshot of
\* the session, which the log still holds
C31_MarkerBehindSnapshot ==
  /\ result.op = "delete_session"
  /\ result.success
  /\ Len(log) = 2
  /\ log[1].tag = Marker
  /\ log[2].tag = DeletedMarker
  /\ log[1].session_id = log[2].session_id

\* C32: however many records the memory holds, get_session(id) returns
\* the newest snapshot of id, and get_all_sessions holds every session
\* that has a snapshot and no deletion marker.
C32_ReadsAllRecords ==
  \A sid \in SessionIds(log) :
    (Snapshots(log, sid) # {} /\ Tombstones(log, sid) = {}) =>
      /\ \A seen \in LastKWindows(log, sid) :
           get_session(seen, sid) = <<log[Newest(log, sid)].payload>>
      /\ \A order \in Orders, seen \in TopKWindows(log) :
           \E i \in 1..Len(get_all_sessions(seen, order)) :
             get_all_sessions(seen, order)[i].session_id = sid

\* C33: with a directory that can be written, create_educational_document
\* returns its success message and writes the file exactly when the type
\* is registered and every required field of the type is a key of fields;
\* for an unregistered type its error message names the registered types,
\* for a missing required field it names the missing fields, and in both
\* cases no file is written.
C33_CreatesWhenValid ==
  \A doc_type \in {TemplateSession.doc_type, "memo"} :
    LET keys == DOMAIN TemplateSession.fields
        out == create_educational_document(files, doc_type,
                 TemplateSession.course_code, TemplateSession.title,
                 TemplateSession.fields, TRUE)
        registered == doc_type \in DOMAIN TEMPLATES
        required == TEMPLATES[doc_type].required_fields
        valid == registered /\ Range(required) \subseteq keys
        file_path == generate_filename(TemplateSession.course_code,
                       doc_type, TemplateSession.title)
    IN /\ out.result.success <=> valid
       /\ valid => /\ out.io.wrote = {file_path}
                   /\ file_path \in DOMAIN out.files
                   /\ out.files[file_path] = out.result.final_content
       /\ ~valid => out.files = files /\ out.io.wrote = {}
       /\ ~registered
            => /\ out.result.error = "Unknown document type"
               /\ Range(out.result.available_fields) = DOMAIN TEMPLATES
       /\ (registered /\ ~valid)
            => /\ out.result.error = "Missing required fields"
               /\ OrderedRest(out.result.missing_fields, required, keys)
               /\ out.result.missing_fields # <<>>
       /\ (result.op = "create_educational_document" /\ result.success)
            => Range(TemplateSession.required_fields) \subseteq keys

\* a document with a missing required field has been refused: the message
\* names the two missing fields and no file exists
C33_RefusedForMissingFields ==
  /\ result.op = "create_educational_document"
  /\ ~result.success
  /\ result.missing_fields = <<"lecture_number", "main_content">>
  /\ files = <<>>

\* C34: every snapshot in the log whose pdf_path is set has each required
\* field of its session as a key of fields.
C34_FinalizedIsComplete ==
  \A i \in 1..Len(log) :
    (log[i].tag = Marker /\ log[i].payload.pdf_path # NoPath)
      => Range(log[i].payload.required_fields)
           \subseteq DOMAIN log[i].payload.fields

\* a session has been finalized: its newest snapshot carries a pdf_path
\* and an earlier snapshot of it lacked a required field
C34_FinalizedAfterDraft ==
  /\ result.op = "finalize_session"
  /\ result.success
  /\ \E i, j \in 1..Len(log) :
       /\ i < j
       /\ log[i].tag = Marker /\ log[j].tag = Marker
       /\ log[i].session_id = log[j].session_id
       /\ ~(Range(log[i].payload.required_fields)
              \subseteq DOMAIN log[i].payload.fields)
       /\ log[j].payload.pdf_path # NoPath

\* the required fields of a snapshot that are keys of its fields
CompletedRequired(session_data) ==
  Range(session_data.required_fields) \cap DOMAIN session_data.fields

\* C35: a snapshot that update_session_field or finalize_session appends
\* for a session has every key of fields that an earlier snapshot of the
\* session has, at least as many completed required fields, and all
\* required fields when the earlier snapshot had them all.
C35_ProgressMonotone ==
  [][(result'.op \in {"update_session_field", "finalize_session"}
        /\ log' # log)
     => LET new == log'[Len(log')] IN
        \A i \in Snapshots(log, new.session_id) :
          LET old == log[i].payload IN
          /\ new.tag = Marker
          /\ DOMAIN old.fields \subseteq DOMAIN new.payload.fields
          /\ Cardinality(CompletedRequired(old))
               <= Cardinality(CompletedRequired(new.payload))
          /\ MissingRequired(old) = <<>>
               => MissingRequired(new.payload) = <<>>]_vars

\* the saved state of the session, when there is one
SavedState(b) == b[state_key(PrepareSession)]

\* C36: whenever update_state returns True, whether its load found the
\* state, found none or failed, the saved state has every key of the
\* previous saved state that updates does not name, with its value
\* (save_state's updated_at stamp apart), so created_at keeps its first
\* value.
C36_UpdateKeepsOtherKeys ==
  state_key(PrepareSession) \in DOMAIN bucket =>
    \A updates \in UpdateInputs, get \in GetOutcomes, t \in Times :
      LET out == update_state(bucket, PrepareSession, updates, t, get,
                              TRUE)
          old == SavedState(bucket)
          new == SavedState(out.bucket)
      IN out.ret =>
           \A k \in DOMAIN old \ (DOMAIN updates \cup {"updated_at"}) :
             k \in DOMAIN new /\ new[k] = old[k]

\* the saved documents list, [] without a saved state or a documents key
SavedDocuments(b) ==
  IF state_key(PrepareSession) \in DOMAIN b
       /\ "documents" \in DOMAIN SavedState(b)
  THEN SavedState(b).documents ELSE <<>>

\* C37: the saved documents list never holds two entries with one id, and
\* an add_document_to_history that returns True leaves every entry with
\* another id as it was, at its place, and exactly one entry with the id
\* it names, with the title it was given: the entry that was there when
\* there was one.
C37_HistoryWithoutDuplicates ==
  LET old == SavedDocuments(bucket) IN
  /\ \A i, j \in 1..Len(old) : old[i].id = old[j].id => i = j
  /\ \A doc_id \in DocIds, get \in GetOutcomes, t \in Times :
       LET out == add_document_to_history(bucket, PrepareSession, doc_id,
                    "quiz", "Quiz 3", t, get, TRUE)
           new == SavedDocuments(out.bucket)
       IN out.ret =>
            /\ Cardinality({i \in 1..Len(new) : new[i].id = doc_id}) = 1
            /\ \A i \in 1..Len(old) :
                 /\ i <= Len(new)
                 /\ new[i].id = old[i].id
                 /\ old[i].id # doc_id => new[i] = old[i]
                 /\ old[i].id = doc_id
                      => /\ new[i].title = "Quiz 3"
                         /\ new[i].type = old[i].type
                         /\ new[i].created_at = old[i].created_at

\* C38: update_document on a stored document that returns True has put
\* the new content, applied metadata_updates to the metadata, not moved
\* updated_at back, and kept the created_at, doc_id and doc_type of the
\* document; on a document that is not stored it returns False and the
\* bucket is as it was.
C38_UpdateKeepsDocumentIdentity ==
  \A doc_id \in DocIds, content \in Contents,
     metadata_updates \in MetadataInputs, get_md, get_meta \in GetOutcomes,
     t \in Times :
    LET md_key == _get_document_key(PrepareSession, doc_id, "md")
        metadata_key == _get_metadata_key(PrepareSession, doc_id)
        out == update_document(bucket, PrepareSession, doc_id, content,
                 metadata_updates, t, get_md, get_meta, TRUE, TRUE)
        old == bucket[metadata_key]
        new == out.bucket[metadata_key]
    IN /\ md_key \notin DOMAIN bucket
            => ~out.ret /\ out.bucket = bucket
       /\ ({md_key, metadata_key} \subseteq DOMAIN bucket /\ out.ret)
            => /\ out.bucket[md_key] = content
               /\ \A k \in DOMAIN metadata_updates :
                    new[k] = metadata_updates[k]
               /\ new.updated_at >= old.updated_at
               /\ new.created_at = old.created_at
               /\ new.doc_id = old.doc_id
               /\ new.doc_type = old.doc_type

\* C39: every run of a stream method ends, and the last event it has
\* yielded then has is_task_complete = True, whether the model stream
\* ends with a 'complete' event, without one, yields nothing or raises.
C39_StreamEndsComplete ==
  <>(/\ calls.pc = "done"
     /\ calls.yielded # <<>>
     /\ calls.yielded[Len(calls.yielded)].is_task_complete)
====
